---- MODULE Spec2Model ----
(***************************************************************************)
(* Model of the subtitle burner's progress tracker (ProgressManager), of   *)
(* the orchestration of one processing run (SubtitleProcessor              *)
(* .processVideo / processVideoSequential with its cleanup), of the        *)
(* hook that starts a run (useVideoProcessing.startProcessing) and of the  *)
(* filter graph builder (buildOptimizedFilterComplex).                     *)
(*                                                                         *)
(* Numbers.  Progress values are held in tenths of a percentage point      *)
(* (Pct(100) is 100%), so that 30 + prog * 0.7 and the 1-point emission    *)
(* threshold are exact.  Times are held in half milliseconds, so that      *)
(* toFixed(3) is a real rounding.                                          *)
(***************************************************************************)
EXTENDS Integers, Sequences, FiniteSets, TLC

VARIABLES
    progressManager,  \* the ProgressManager singleton (fields + outputs of the last call,
                      \* kept until the stores have taken them)
    lastCall,         \* the last call made on the tracker: its name, the phase and progress
                      \* before it, and the argument of a setPhase or updatePhase call
    relevantSubtitles, \* videoStore.relevantSubtitles: the entries a run burns in
    outputFormat,     \* videoStore.outputFormat
    filterComplex,    \* the filter graph last built by buildOptimizedFilterComplex
    ffmpeg,           \* the engine: loaded or not, its file system, its calls in flight
    processor,        \* SubtitleProcessor's flags
    service,          \* VideoProcessingService's flags
    run,              \* the position of startProcessing / processVideoSequential
    videoStore,       \* the fields of the video store the run touches
    progressStore,    \* progressStage and the log lines added
    hook              \* the hook's handleError and its pending 2000 ms resets

(***************************************************************************)
(* Bounds of the model                                                     *)
(***************************************************************************)
\* progressHistory keeps the last HistoryLimit entries (100 in the source,
\* scaled down here; the push/shift logic is the source's)
HistoryLimit == 1
\* number of complete() calls (each arms one delayed reset) explored
MaxTimers == 1
\* longest subtitle list given to the filter graph builder
MaxSubs == 2
\* loads of the engine and processing runs started, together
MaxStarts == 2
\* forceCleanup() without a list names subtitle_<i>.png for i below this
FallbackLimit == 1000
\* largest time of an entry, in half milliseconds
MaxTime == 3

Pct(n) == n * 10

Min(a, b) == IF a <= b THEN a ELSE b
Max(a, b) == IF a >= b THEN a ELSE b

ProcessingPhase == {"parsing-subtitles", "processing-video", "completed", "error"}

\* arguments tried for updatePhase: -5, 0.5, 1.2, 1.5, 150 (percent)
ProgressInputs == {Pct(-5), 5, 12, 15, Pct(150)}

(***************************************************************************)
(* ProgressManager                                                         *)
(*   emitted : the updates handed to the progress subscribers by the last  *)
(*             call, in order (what emitUpdate passes to callbacks)        *)
(*   logged  : the messages handed to the log subscribers by the last call *)
(*   pendingResets : the armed setTimeout(reset, 1000) timers of           *)
(*             complete(), by serial number; timerSeq numbers them         *)
(* completePhase() has no caller in the repository and is left out.        *)
(***************************************************************************)
NewProgressManager ==
    [ currentPhase         |-> "parsing-subtitles",
      phaseProgress        |-> 0,
      lastReportedProgress |-> 0,
      progressHistory      |-> << >>,
      callbacks            |-> {},
      logCallbacks         |-> {},
      emitted              |-> << >>,
      logged               |-> << >>,
      timerSeq             |-> 0,
      pendingResets        |-> {} ]

\* start of a call: nothing emitted or logged yet by this call
Call(t) == [t EXCEPT !.emitted = << >>, !.logged = << >>]

\* a reset that also forgets the subscribers
reset_DropsSubscribers(t) ==
    [t EXCEPT !.currentPhase = "parsing-subtitles",
              !.phaseProgress = 0,
              !.lastReportedProgress = 0,
              !.progressHistory = << >>,
              !.callbacks = {},
              !.logCallbacks = {}]

reset(t) ==
    [t EXCEPT !.currentPhase = "parsing-subtitles",
              !.phaseProgress = 0,
              !.lastReportedProgress = 0,
              !.progressHistory = << >>]

onProgress(t, cb) == [t EXCEPT !.callbacks = @ \cup {cb}]
onLog(t, cb) == [t EXCEPT !.logCallbacks = @ \cup {cb}]
\* the functions onProgress and onLog return
unsubscribeProgress(t, cb) == [t EXCEPT !.callbacks = @ \ {cb}]
unsubscribeLog(t, cb) == [t EXCEPT !.logCallbacks = @ \ {cb}]

emitUpdate(t) ==
    LET update == [phase |-> t.currentPhase, phaseProgress |-> t.phaseProgress]
        pushed == Append(t.progressHistory, update)
    IN  [t EXCEPT !.progressHistory =
                      IF Len(pushed) > HistoryLimit THEN Tail(pushed) ELSE pushed,
                  !.emitted = Append(@, update)]

log(t, message) ==
    IF t.logCallbacks = {} THEN t ELSE [t EXCEPT !.logged = Append(@, message)]

\* updatePhase without the "only if progress has increased" guard
updatePhase_NoGuard(t, value) ==
    LET progress == Max(0, Min(Pct(100), value))
        t1 == [t EXCEPT !.phaseProgress = progress]
        isFirstUpdate == t1.lastReportedProgress = 0 /\ progress > 0
        isMeaningfulIncrease == progress - t1.lastReportedProgress >= Pct(1)
    IN  IF isFirstUpdate \/ isMeaningfulIncrease
        THEN emitUpdate([t1 EXCEPT !.lastReportedProgress = progress])
        ELSE t1

\* updatePhase that reports every accepted value, without the one-point
\* threshold
updatePhase_EmitsAlways(t, value) ==
    LET progress == Max(0, Min(Pct(100), value))
    IN  IF progress <= t.phaseProgress
        THEN t
        ELSE emitUpdate([t EXCEPT !.phaseProgress = progress,
                                  !.lastReportedProgress = progress])

updatePhase(t, value) ==
    LET progress == Max(0, Min(Pct(100), value))
    IN  IF progress <= t.phaseProgress
        THEN t
        ELSE LET t1 == [t EXCEPT !.phaseProgress = progress]
                 isFirstUpdate == t1.lastReportedProgress = 0 /\ progress > 0
                 isMeaningfulIncrease == progress - t1.lastReportedProgress >= Pct(1)
             IN  IF isFirstUpdate \/ isMeaningfulIncrease
                 THEN emitUpdate([t1 EXCEPT !.lastReportedProgress = progress])
                 ELSE t1

\* setPhase that switches the phase but keeps the progress of the old one
setPhase_KeepProgress(t, phase) ==
    IF phase = t.currentPhase
    THEN t
    ELSE updatePhase(emitUpdate([t EXCEPT !.currentPhase = phase]), 0)

setPhase(t, phase) ==
    IF phase = t.currentPhase
    THEN t
    ELSE updatePhase(
             emitUpdate([t EXCEPT !.currentPhase = phase,
                                  !.phaseProgress = 0,
                                  !.lastReportedProgress = 0]),
             0)

\* processedTime and totalDuration in the same time unit; the quotient is
\* taken to a tenth of a point
updateVideoProgress(t, processedTime, totalDuration) ==
    LET t1 == IF t.currentPhase # "processing-video"
              THEN setPhase(t, "processing-video") ELSE t
    IN  IF totalDuration <= 0
        THEN t1
        ELSE updatePhase(t1, Min((processedTime * Pct(100)) \div totalDuration, Pct(100)))

updateSubtitleProgress(t, current, total) ==
    LET t1 == IF t.currentPhase # "parsing-subtitles"
              THEN setPhase(t, "parsing-subtitles") ELSE t
    IN  IF total <= 0
        THEN t1
        ELSE updatePhase(t1, Min((current * Pct(100)) \div total, Pct(100)))

\* absent number (undefined, or a pattern that did not match)
None == 0 - 1

complete(t) ==
    LET t1 == updatePhase(setPhase(t, "completed"), Pct(100))
    IN  [t1 EXCEPT !.timerSeq = @ + 1,
                   !.pendingResets = @ \cup {t.timerSeq + 1}]

\* error(message, error?): the two log lines carry the message and, when an
\* Error object is passed, its details
error(t, message, withError) ==
    LET t1 == log(setPhase(t, "error"), [line |-> "Error", message |-> message])
    IN  IF withError
        THEN log(t1, [line |-> "Error details", message |-> message])
        ELSE t1

(***************************************************************************)
(* An engine log line, as far as parseFFmpegLog looks at it: the value of  *)
(* its time= field (in time units), of frame= and of fps=, None when the   *)
(* pattern does not match.                                                 *)
(***************************************************************************)
\* half milliseconds per second
UnitsPerSecond == 2 * 1000

\* the value parseFFmpegLog returns
parseFFmpegLogResult(t, line, videoDuration) ==
    /\ t.currentPhase = "processing-video"
    /\ videoDuration # None /\ videoDuration # 0
    /\ \/ line.time # None
       \/ line.frame # None /\ line.fps # None /\ line.fps > 0

\* parseFFmpegLog without the early return on the phase and the duration
parseFFmpegLog_AnyPhase(t, line, videoDuration) ==
    IF line.time # None
    THEN updateVideoProgress(t, line.time, IF videoDuration = None THEN 0 ELSE videoDuration)
    ELSE IF line.frame # None /\ line.fps # None /\ line.fps > 0
         THEN updateVideoProgress(t, (line.frame * UnitsPerSecond) \div line.fps,
                                  IF videoDuration = None THEN 0 ELSE videoDuration)
         ELSE t

parseFFmpegLog(t, line, videoDuration) ==
    IF t.currentPhase # "processing-video" \/ videoDuration = None \/ videoDuration = 0
    THEN t
    ELSE IF line.time # None
         THEN updateVideoProgress(t, line.time, videoDuration)
         ELSE IF line.frame # None /\ line.fps # None /\ line.fps > 0
              THEN updateVideoProgress(t, (line.frame * UnitsPerSecond) \div line.fps,
                                       videoDuration)
              ELSE t

(***************************************************************************)
(* Filter graph builder.  The filter_complex string is held as the         *)
(* sequence of its tokens: a [label], an overlay filter with its enable    *)
(* window as printed (toFixed(3): whole milliseconds), the copy filter,    *)
(* and the ';' between two chains.                                         *)
(***************************************************************************)
\* a SubtitleEntry (its text plays no part in the graph)
Entry(index, startTime, endTime) ==
    [index |-> index, startTime |-> startTime, endTime |-> endTime]

\* Number.toFixed(3) of a time in seconds: the nearest millisecond, the
\* larger one on a tie; the argument is in half milliseconds
toFixed3(time) == (time + 1) \div 2

Label(name) == [tok |-> "label", name |-> name]
Overlay(startTime, endTime) ==
    [tok |-> "overlay", x |-> 0, y |-> 0,
     from |-> toFixed3(startTime), to |-> toFixed3(endTime)]
CopyFilter == [tok |-> "copy"]
ChainSeparator == [tok |-> ";"]

InputPad(inputIndex) == ToString(inputIndex) \o ":v"
OverlayLabel(index) == "overlay" \o ToString(index)

\* every stage takes the base video as its first input
FilterStage_OntoBase(subtitles, index) ==
    LET subtitle == subtitles[index + 1]
        inputIndex == index + 1
        outputLabel == IF index = Len(subtitles) - 1
                       THEN "final_output" ELSE OverlayLabel(index)
    IN  IF index = 0
        THEN << Label(InputPad(inputIndex)),
                Overlay(subtitle.startTime, subtitle.endTime),
                Label(outputLabel) >>
        ELSE << ChainSeparator,
                Label(InputPad(0)), Label(InputPad(inputIndex)),
                Overlay(subtitle.startTime, subtitle.endTime),
                Label(outputLabel) >>

\* the text appended for the entry at 0-based position index
FilterStage(subtitles, index) ==
    LET subtitle == subtitles[index + 1]
        inputIndex == index + 1
        outputLabel == IF index = Len(subtitles) - 1
                       THEN "final_output" ELSE OverlayLabel(index)
    IN  IF index = 0
        THEN << Label(InputPad(inputIndex)),
                Overlay(subtitle.startTime, subtitle.endTime),
                Label(outputLabel) >>
        ELSE << ChainSeparator,
                Label(OverlayLabel(index - 1)), Label(InputPad(inputIndex)),
                Overlay(subtitle.startTime, subtitle.endTime),
                Label(outputLabel) >>

RECURSIVE AppendStages(_, _, _)
AppendStages(text, subtitles, index) ==
    IF index >= Len(subtitles)
    THEN text
    ELSE AppendStages(text \o FilterStage(subtitles, index), subtitles, index + 1)

\* the builder stopping one entry short on lists of more than one entry
buildOptimizedFilterComplex_DropsLast(subtitles) ==
    IF Len(subtitles) = 0
    THEN << Label(InputPad(0)), CopyFilter, Label("final_output") >>
    ELSE AppendStages(<< Label(InputPad(0)) >>,
                      IF Len(subtitles) > 1
                      THEN SubSeq(subtitles, 1, Len(subtitles) - 1) ELSE subtitles,
                      0)

\* a builder that reads the processor besides its argument: the overlays
\* are left out while the engine is not loaded
buildOptimizedFilterComplex_ReadsFlag(subtitles) ==
    IF Len(subtitles) = 0 \/ ~processor.isFFmpegLoaded
    THEN << Label(InputPad(0)), CopyFilter, Label("final_output") >>
    ELSE AppendStages(<< Label(InputPad(0)) >>, subtitles, 0)

buildOptimizedFilterComplex(subtitles) ==
    IF Len(subtitles) = 0
    THEN << Label(InputPad(0)), CopyFilter, Label("final_output") >>
    ELSE AppendStages(<< Label(InputPad(0)) >>, subtitles, 0)

(***************************************************************************)
(* The engine, as the program uses it.  Calls are queued to one worker:    *)
(* deleteFile calls settle in the order issued.  A call made while the     *)
(* engine is not loaded rejects with NotLoaded; terminate() rejects every  *)
(* call in flight with Sentinel and unloads the engine, losing its files.  *)
(***************************************************************************)
Null == "null"
Sentinel == "called FFmpeg.terminate()"
NotLoaded == "ffmpeg is not loaded"

VideoFile == "input.mp4"
OutputFile(format) == "output." \o format
SubtitleFile(index) == "subtitle_" \o ToString(index) \o ".png"

NewFFmpeg ==
    [ loaded   |-> FALSE,
      loading  |-> Null,      \* load() in flight: Null, "ok" or the error it will reject with
      files    |-> {},
      pending  |-> << >>,     \* deleteFile calls in flight, oldest first
      handlers |-> FALSE ]    \* the "progress" handler of loadFFmpeg is registered

(***************************************************************************)
(* The encoder's argument list.  ProcessingOptions holds None for a number *)
(* its object does not carry (crf, memoryLimit and threads are optional);  *)
(* useDiskCache, preset and maxBitrate are read by nothing.  The list is   *)
(* held as its arguments in order, the filter graph as its tokens.         *)
(***************************************************************************)
ProcessingOptions(quality, crf, memoryLimit, threads) ==
    [quality |-> quality, crf |-> crf, memoryLimit |-> memoryLimit, threads |-> threads]

\* { ...defaultOptions, ...processingOptions } of processVideo
defaultOptions == ProcessingOptions("balanced", 23, 500, 0)
MergeOptions(processingOptions) ==
    [ quality     |-> processingOptions.quality,
      crf         |-> IF processingOptions.crf = None
                      THEN defaultOptions.crf ELSE processingOptions.crf,
      memoryLimit |-> IF processingOptions.memoryLimit = None
                      THEN defaultOptions.memoryLimit ELSE processingOptions.memoryLimit,
      threads     |-> IF processingOptions.threads = None
                      THEN defaultOptions.threads ELSE processingOptions.threads ]

\* a || b on numbers, undefined held as None: 0 and undefined are falsy
OrElse(a, b) == IF a = None \/ a = 0 THEN b ELSE a

Arg(text) == [tok |-> "arg", text |-> text]
GraphArg(graph) == [tok |-> "graph", text |-> graph]

RECURSIVE ImageInputs(_)
ImageInputs(subtitles) ==
    IF subtitles = << >>
    THEN << >>
    ELSE << Arg("-i"), Arg(SubtitleFile(Head(subtitles).index)) >>
            \o ImageInputs(Tail(subtitles))

\* the list processWithUnifiedFilter builds for exec
ffmpegArgs(subtitles, format, options) ==
    LET preset == IF options.quality = "fast" THEN "ultrafast"
                  ELSE IF options.quality = "high" THEN "slow" ELSE "medium"
        crf == OrElse(options.crf, IF options.quality = "fast" THEN 28
                                   ELSE IF options.quality = "high" THEN 18 ELSE 23)
        threads == OrElse(options.threads, 0)
        tune == IF options.quality = "high" THEN "film" ELSE "fastdecode"
        bframes == IF options.quality = "fast" THEN "0"
                   ELSE IF options.quality = "high" THEN "3" ELSE "2"
        refs == IF options.quality = "fast" THEN "1"
                ELSE IF options.quality = "high" THEN "5" ELSE "3"
        memoryLimitKB == (OrElse(options.memoryLimit, 500) * 1024 * 1024) \div 1024
    IN  << Arg("-i"), Arg(VideoFile) >>
           \o ImageInputs(subtitles)
           \o << Arg("-filter_complex"), GraphArg(buildOptimizedFilterComplex(subtitles)),
                 Arg("-map"), Arg("[final_output]"),
                 Arg("-map"), Arg("0:a?"),
                 Arg("-c:v"), Arg("libx264"),
                 Arg("-preset"), Arg(preset),
                 Arg("-crf"), Arg(ToString(crf)),
                 Arg("-c:a"), Arg("copy"),
                 Arg("-movflags"), Arg("+faststart"),
                 Arg("-avoid_negative_ts"), Arg("make_zero"),
                 Arg("-threads"), Arg(ToString(threads)),
                 Arg("-tune"), Arg(tune),
                 Arg("-bf"), Arg(bframes),
                 Arg("-refs"), Arg(refs),
                 Arg("-g"), Arg(IF options.quality = "fast" THEN "120" ELSE "250"),
                 Arg("-bufsize"), Arg(ToString(memoryLimitKB) \o "k"),
                 Arg("-maxrate"), Arg(ToString(memoryLimitKB \div 4) \o "k"),
                 Arg("-pix_fmt"), Arg("yuv420p") >>
           \o (IF options.quality = "fast"
               THEN << Arg("-flags"), Arg("+cgop") >> ELSE << >>)
           \o << Arg("-y"), Arg(OutputFile(format)) >>

NewProcessor == [isFFmpegLoaded |-> FALSE, isFFmpegLoading |-> FALSE, loads |-> 0]

NewService == [isInitialized |-> FALSE, isInitializing |-> FALSE]

IdleRun ==
    [ pc             |-> "idle",
      runs           |-> 0,
      k              |-> 0,       \* images created so far
      inflight       |-> Null,    \* the awaited engine call: "ok" or the error it will reject with
      outputEmpty    |-> FALSE,
      error          |-> Null,    \* the error the run rejects with
      failure        |-> Null,    \* the error of the step that failed
      deleteFailed   |-> FALSE,   \* a deleteFile of the run has rejected
      rejected       |-> FALSE,   \* a delete promise of the awaited Promise.all has rejected
      deleteAttempts |-> {},      \* deleteFile calls made since processVideoSequential began
      completeTimer  |-> None,    \* the delayed reset armed by this run's complete()
      ffmpegArgs     |-> << >>,   \* the argument list exec was last called with
      subtitleImages |-> {},      \* the keys of createOptimizedSubtitleImages' image map
      written        |-> << >> ]  \* the files whose writeFile of this run has resolved, in order

\* a field that is null or an object is held as a sequence: << >> for null,
\* << object >> otherwise
NewVideoStore ==
    [ isProcessing |-> FALSE, isCancelling |-> FALSE, ffmpegLoaded |-> FALSE,
      error |-> Null, downloadUrl |-> FALSE,
      subtitleFile |-> << >>, videoInfo |-> << >>,
      parsedSubtitles |-> << >>, subtitleStats |-> << >>,
      processingOptions |-> ProcessingOptions("balanced", 23, 500, 0) ]

NewProgressStore == [progressStage |-> "", logs |-> {}]

NewHook ==
    [ handleError |-> Null,   \* the error handleError was last called with
      seenError   |-> Null,   \* videoStore.error and progressStage as the running
      seenStage   |-> "",     \*   startProcessing closure sees them
      timers      |-> {},     \* pending 2000 ms resets, each with what its closure sees
      cancel      |-> "idle", \* the position of the provider's confirmCancelProcessing
      cancelTimer |-> FALSE,  \* its 500 ms timer is armed
      isGloballyInitialized  |-> FALSE,  \* GlobalInitializationState
      isGloballyInitializing |-> FALSE,
      globalInitPromise      |-> FALSE,  \* a promise is stored (not null)
      mounted     |-> {},     \* the hook instances whose initializeService effect has run
      waiting     |-> {},     \* the instances awaiting the stored promise
      localStorage |-> << >>, \* the item 'subtitle-burner-state', if any
      now         |-> 0,      \* Date.now(), in ms
      reloadTimer |-> FALSE,  \* the 500 ms timer of the hook's confirmCancelProcessing
      effectRan   |-> {},     \* the instances whose restoreState effect has run on this page
      saves       |-> 0,      \* cancellations saved so far
      cancelledLines |-> 0 ]  \* times the 'cancelled via page reload' line was added

serviceVars == <<ffmpeg, processor, service, run, videoStore, progressStore, hook>>

InitService ==
    /\ ffmpeg = NewFFmpeg
    /\ processor = NewProcessor
    /\ service = NewService
    /\ run = IdleRun
    /\ videoStore = NewVideoStore
    /\ progressStore = NewProgressStore
    /\ hook = NewHook

(***************************************************************************)
(* The tracker driven through its public interface: every method called    *)
(* with arguments from small sets, and the timers it armed firing at any   *)
(* later moment.                                                           *)
(***************************************************************************)
trackerVars == <<progressManager, lastCall>>
inputVars == <<relevantSubtitles, outputFormat>>
vars == <<progressManager, lastCall, relevantSubtitles, outputFormat, filterComplex,
          ffmpeg, processor, service, run, videoStore, progressStore, hook>>

Subscribers == {"cb1"}
Messages == {"m"}
\* (processedTime, totalDuration) tried: 5 s and 20 s of a 10 s video, and
\* of a video of duration 0
TimeInputs == {5 * UnitsPerSecond, 20 * UnitsPerSecond}
DurationInputs == {0, 10 * UnitsPerSecond}
\* (current, total) tried
CountInputs == {1, 2}
TotalInputs == {0, 2}
\* log lines tried: time=00:00:05.00; frame=75 with fps=15, with fps=0 and
\* without fps; no pattern
LogLines ==
    { [time |-> 5 * UnitsPerSecond, frame |-> None, fps |-> None],
      [time |-> None, frame |-> 75, fps |-> 15],
      [time |-> None, frame |-> 75, fps |-> 0],
      [time |-> None, frame |-> 75, fps |-> None],
      [time |-> None, frame |-> None, fps |-> None] }

Record(op, args) ==
    [op |-> op, args |-> args,
     phaseBefore |-> progressManager.currentPhase,
     progressBefore |-> progressManager.phaseProgress]

\* a call on the tracker touches nothing else
TrackerCall(op, args) ==
    /\ lastCall' = Record(op, args)
    /\ UNCHANGED <<relevantSubtitles, outputFormat, filterComplex>>
    /\ UNCHANGED serviceVars

InitTracker ==
    /\ progressManager = NewProgressManager
    /\ relevantSubtitles = << >>
    /\ outputFormat = "mp4"
    /\ filterComplex = << >>
    /\ lastCall = [op |-> "constructor", args |-> << >>,
                   phaseBefore |-> "parsing-subtitles", progressBefore |-> 0]
    /\ InitService

ResetCall ==
    /\ progressManager' = reset(Call(progressManager))
    /\ TrackerCall("reset", << >>)

OnProgressCall(cb) ==
    /\ progressManager' = onProgress(Call(progressManager), cb)
    /\ TrackerCall("onProgress", << >>)

OnLogCall(cb) ==
    /\ progressManager' = onLog(Call(progressManager), cb)
    /\ TrackerCall("onLog", << >>)

UnsubscribeProgressCall(cb) ==
    /\ cb \in progressManager.callbacks
    /\ progressManager' = unsubscribeProgress(Call(progressManager), cb)
    /\ TrackerCall("unsubscribeProgress", << >>)

UnsubscribeLogCall(cb) ==
    /\ cb \in progressManager.logCallbacks
    /\ progressManager' = unsubscribeLog(Call(progressManager), cb)
    /\ TrackerCall("unsubscribeLog", << >>)

SetPhaseCall(phase) ==
    /\ progressManager' = setPhase(Call(progressManager), phase)
    /\ TrackerCall("setPhase", <<phase>>)

UpdatePhaseCall(value) ==
    /\ progressManager' = updatePhase(Call(progressManager), value)
    /\ TrackerCall("updatePhase", <<value>>)

UpdateVideoProgressCall(processedTime, totalDuration) ==
    /\ progressManager' = updateVideoProgress(Call(progressManager), processedTime, totalDuration)
    /\ TrackerCall("updateVideoProgress", << >>)

UpdateSubtitleProgressCall(current, total) ==
    /\ progressManager' = updateSubtitleProgress(Call(progressManager), current, total)
    /\ TrackerCall("updateSubtitleProgress", << >>)

CompleteCall ==
    /\ progressManager.timerSeq < MaxTimers
    /\ progressManager' = complete(Call(progressManager))
    /\ TrackerCall("complete", << >>)

ErrorCall(message, withError) ==
    /\ progressManager' = error(Call(progressManager), message, withError)
    /\ TrackerCall("error", << >>)

ParseFFmpegLogCall(line, videoDuration) ==
    /\ progressManager' = parseFFmpegLog(Call(progressManager), line, videoDuration)
    /\ TrackerCall("parseFFmpegLog", << >>)

\* the callback of complete()'s setTimeout(..., 1000)
ResetTimerFires(id) ==
    /\ id \in progressManager.pendingResets
    /\ progressManager' = [reset(Call(progressManager)) EXCEPT !.pendingResets = @ \ {id}]
    /\ TrackerCall("resetTimer", << >>)

NextTracker ==
    \/ ResetCall
    \/ \E cb \in Subscribers : OnProgressCall(cb)
    \/ \E cb \in Subscribers : OnLogCall(cb)
    \/ \E cb \in Subscribers : UnsubscribeProgressCall(cb)
    \/ \E cb \in Subscribers : UnsubscribeLogCall(cb)
    \/ \E phase \in ProcessingPhase : SetPhaseCall(phase)
    \/ \E value \in ProgressInputs : UpdatePhaseCall(value)
    \/ \E pt \in TimeInputs, td \in DurationInputs : UpdateVideoProgressCall(pt, td)
    \/ \E c \in CountInputs, n \in TotalInputs : UpdateSubtitleProgressCall(c, n)
    \/ CompleteCall
    \/ \E m \in Messages, e \in BOOLEAN : ErrorCall(m, e)
    \/ \E line \in LogLines, d \in DurationInputs \cup {None} : ParseFFmpegLogCall(line, d)
    \/ \E id \in 1..MaxTimers : ResetTimerFires(id)

SpecTracker == InitTracker /\ [][NextTracker]_vars

(***************************************************************************)
(* Properties of the tracker                                               *)
(***************************************************************************)
Clamp(value) == Max(0, Min(Pct(100), value))

\* C1: an updatePhase call never lowers phaseProgress, and a call whose
\* clamped value is <= the current phaseProgress changes no field of the
\* tracker (phaseProgress, lastReportedProgress, progressHistory, phase) and
\* emits nothing.
C1_UpdatePhaseMonotonic ==
    [][\A value \in ProgressInputs :
          UpdatePhaseCall(value) =>
             /\ progressManager'.phaseProgress >= progressManager.phaseProgress
             /\ Clamp(value) <= progressManager.phaseProgress =>
                   /\ progressManager'.emitted = << >>
                   /\ progressManager' = Call(progressManager)]_vars

\* a rejected updatePhase call on a tracker that had progress and history
C1_Witness ==
    /\ lastCall.op = "updatePhase"
    /\ lastCall.progressBefore > 0
    /\ Clamp(lastCall.args[1]) > 0
    /\ Clamp(lastCall.args[1]) <= lastCall.progressBefore
    /\ progressManager.progressHistory # << >>

\* C2: setPhase(p) with p different from the current phase sets
\* phaseProgress and lastReportedProgress to 0 and emits exactly one update,
\* (p, 0%); and in every step that changes the phase and emits, the first
\* update emitted carries the new phase with 0%, never the old progress.
C2_PhaseReset ==
    [][/\ \A phase \in ProcessingPhase :
             (SetPhaseCall(phase) /\ phase # progressManager.currentPhase) =>
                /\ progressManager'.currentPhase = phase
                /\ progressManager'.phaseProgress = 0
                /\ progressManager'.lastReportedProgress = 0
                /\ progressManager'.emitted = <<[phase |-> phase, phaseProgress |-> 0]>>
       /\ (/\ progressManager'.currentPhase # progressManager.currentPhase
           /\ progressManager'.emitted # << >>) =>
              progressManager'.emitted[1] =
                 [phase |-> progressManager'.currentPhase, phaseProgress |-> 0]]_vars

\* setPhase to another phase, called while the old phase had progress
C2_Witness ==
    /\ lastCall.op = "setPhase"
    /\ lastCall.args[1] # lastCall.phaseBefore
    /\ lastCall.progressBefore > 0
    /\ progressManager.currentPhase = lastCall.args[1]
    /\ Len(progressManager.emitted) = 1

TerminalPhases == {"completed", "error"}
UpdateCalls == {"updatePhase", "updateVideoProgress", "updateSubtitleProgress", "parseFFmpegLog"}

\* C8: once the phase is 'completed' or 'error', a call of updatePhase,
\* updateVideoProgress, updateSubtitleProgress or parseFFmpegLog changes
\* neither the phase nor phaseProgress and emits nothing.
C8_TerminalIgnoresUpdates ==
    (lastCall.op \in UpdateCalls /\ lastCall.phaseBefore \in TerminalPhases) =>
        /\ progressManager.currentPhase = lastCall.phaseBefore
        /\ progressManager.phaseProgress = lastCall.progressBefore
        /\ progressManager.emitted = << >>

\* C10: error() puts the tracker in phase 'error', and no timer and no
\* later update takes it out of 'error'.
C10_ErrorStays ==
    /\ lastCall.op = "error" => progressManager.currentPhase = "error"
    /\ (lastCall.phaseBefore = "error" /\ lastCall.op \in UpdateCalls \cup {"resetTimer"}) =>
           progressManager.currentPhase = "error"

\* a line in which neither time= nor the pair frame=, fps= is found
NoPattern(line) == line.time = None /\ (line.frame = None \/ line.fps = None)

\* C11: parseFFmpegLog(line, duration) returns false and changes nothing in
\* the tracker (phase, progress, history, nothing emitted or logged) when
\* the phase is not 'processing-video' or the duration is undefined or 0,
\* whatever the line; and a line without a time= or frame=/fps= pattern
\* returns false and changes nothing in any phase.
C11_ParseLogNoEffect ==
    [][\A line \in LogLines, d \in DurationInputs \cup {None} :
          (/\ ParseFFmpegLogCall(line, d)
           /\ \/ progressManager.currentPhase # "processing-video"
              \/ d = None
              \/ d = 0
              \/ NoPattern(line)) =>
             /\ ~parseFFmpegLogResult(progressManager, line, d)
             /\ progressManager'.emitted = << >>
             /\ progressManager'.logged = << >>
             /\ progressManager' = Call(progressManager)]_vars

\* a log line handed to a tracker that is in another phase, with progress
\* and history
C11_Witness ==
    /\ lastCall.op = "parseFFmpegLog"
    /\ lastCall.phaseBefore \notin {"processing-video", "completed", "error"}
    /\ lastCall.progressBefore > 0
    /\ progressManager.currentPhase = lastCall.phaseBefore
    /\ progressManager.progressHistory # << >>

\* C12: an updatePhase(v) call that is accepted (v above phaseProgress)
\* stores v; it emits exactly when the last emitted value of the phase is 0
\* or v is at least one point above the last emitted value; an emitted value
\* is above the one emitted before it in the phase and, unless that one was
\* 0, at least one point above it.
C12_ThrottledEmission ==
    [][\A value \in ProgressInputs :
          (UpdatePhaseCall(value) /\ Clamp(value) > progressManager.phaseProgress) =>
             LET last == progressManager.lastReportedProgress
                 emits == last = 0 \/ Clamp(value) - last >= Pct(1)
             IN  /\ progressManager'.phaseProgress = Clamp(value)
                 /\ emits <=> progressManager'.emitted # << >>
                 /\ emits =>
                       /\ progressManager'.emitted =
                              << [phase |-> progressManager.currentPhase,
                                  phaseProgress |-> Clamp(value)] >>
                       /\ progressManager'.lastReportedProgress = Clamp(value)
                       /\ Clamp(value) > last
                       /\ last # 0 => Clamp(value) >= last + Pct(1)
                 /\ ~emits => progressManager'.lastReportedProgress = last]_vars

\* an accepted value less than a point above the last emitted one: stored,
\* not emitted
C12_Witness ==
    /\ lastCall.op = "updatePhase"
    /\ Clamp(lastCall.args[1]) > lastCall.progressBefore
    /\ progressManager.phaseProgress = Clamp(lastCall.args[1])
    /\ progressManager.lastReportedProgress > 0
    /\ progressManager.lastReportedProgress < progressManager.phaseProgress
    /\ progressManager.emitted = << >>

\* C26: reset() in any state sets the phase to 'parsing-subtitles',
\* phaseProgress and lastReportedProgress to 0 and empties the history; it
\* emits and logs nothing and leaves both subscriber sets as they are.  A
\* subscriber leaves a set only through the function onProgress / onLog
\* returned for it.
C26_ResetKeepsSubscribers ==
    [][/\ ResetCall =>
             /\ progressManager'.currentPhase = "parsing-subtitles"
             /\ progressManager'.phaseProgress = 0
             /\ progressManager'.lastReportedProgress = 0
             /\ progressManager'.progressHistory = << >>
             /\ progressManager'.emitted = << >>
             /\ progressManager'.logged = << >>
             /\ progressManager'.callbacks = progressManager.callbacks
             /\ progressManager'.logCallbacks = progressManager.logCallbacks
       /\ \A cb \in progressManager.callbacks \ progressManager'.callbacks :
             UnsubscribeProgressCall(cb)
       /\ \A cb \in progressManager.logCallbacks \ progressManager'.logCallbacks :
             UnsubscribeLogCall(cb)]_vars

\* reset() called in phase 'completed' with both kinds of subscriber
C26_Witness ==
    /\ lastCall.op = "reset"
    /\ lastCall.phaseBefore = "completed"
    /\ lastCall.progressBefore = Pct(100)
    /\ progressManager.currentPhase = "parsing-subtitles"
    /\ progressManager.callbacks # {}
    /\ progressManager.logCallbacks # {}

(***************************************************************************)
(* The builder applied to every list of relevant subtitles within the      *)
(* bounds: entries in file order (indices increasing), startTime before    *)
(* endTime, times in half milliseconds.                                    *)
(***************************************************************************)
TimeGrid == 0..MaxTime
EntryInputs ==
    { Entry(i, s, e) : i \in 1..(MaxSubs + 1),
                       s \in TimeGrid, e \in TimeGrid }

SubtitleLists ==
    UNION { { l \in [1..n -> { x \in EntryInputs : x.startTime < x.endTime }] :
                \A i \in 1..n : \A j \in 1..n :
                    i < j => l[i].index < l[j].index } : n \in 0..MaxSubs }

InitFilter ==
    /\ progressManager = NewProgressManager
    /\ relevantSubtitles \in SubtitleLists
    /\ outputFormat = "mp4"
    /\ filterComplex = << >>
    /\ lastCall = Record("constructor", << >>)
    /\ InitService

BuildFilter ==
    /\ filterComplex' = buildOptimizedFilterComplex(relevantSubtitles)
    /\ lastCall' = Record("buildOptimizedFilterComplex", << >>)
    /\ UNCHANGED <<progressManager, relevantSubtitles, outputFormat>>
    /\ UNCHANGED serviceVars

NextFilter == BuildFilter

SpecFilter == InitFilter /\ [][NextFilter]_vars

\* the chains of a filter graph: the text between two ';'
RECURSIVE Stages(_)
Stages(text) ==
    IF text = << >>
    THEN << >>
    ELSE LET cut == IF \E i \in 1..Len(text) : text[i] = ChainSeparator
                    THEN CHOOSE i \in 1..Len(text) :
                           /\ text[i] = ChainSeparator
                           /\ \A j \in 1..(i - 1) : text[j] # ChainSeparator
                    ELSE Len(text) + 1
         IN  << SubSeq(text, 1, cut - 1) >>
               \o (IF cut > Len(text) THEN << >>
                                       ELSE Stages(SubSeq(text, cut + 1, Len(text))))

\* a chain is [input]...[input] filter [output]
WellShaped(stage) ==
    /\ Len(stage) >= 3
    /\ \A i \in 1..Len(stage) :
          (stage[i].tok = "label") <=> (i # Len(stage) - 1)
StageInputs(stage) == [i \in 1..(Len(stage) - 2) |-> stage[i].name]
StageFilter(stage) == stage[Len(stage) - 1]
StageOutput(stage) == stage[Len(stage)].name

Built == lastCall.op = "buildOptimizedFilterComplex"

\* C6: a list of N >= 1 entries gives exactly N overlay stages, the image
\* of each entry (input 1..N) painted by exactly one of them, and the empty
\* list gives the single stage copying [0:v] to [final_output]
C6_StageCount ==
    Built =>
      LET stages == Stages(filterComplex)
          N == Len(relevantSubtitles)
      IN  /\ \A i \in 1..Len(stages) : WellShaped(stages[i])
          /\ N >= 1 =>
                /\ Len(stages) = N
                /\ \A i \in 1..N : StageFilter(stages[i]).tok = "overlay"
                /\ \A k \in 1..N :
                      Cardinality({ i \in 1..N :
                          \E j \in 1..Len(StageInputs(stages[i])) :
                              StageInputs(stages[i])[j] = InputPad(k) }) = 1
          /\ N = 0 =>
                /\ Len(stages) = 1
                /\ StageInputs(stages[1]) = << InputPad(0) >>
                /\ StageFilter(stages[1]) = CopyFilter
                /\ StageOutput(stages[1]) = "final_output"

C6_Witness ==
    /\ Built
    /\ Len(relevantSubtitles) = 2
    /\ Len(Stages(filterComplex)) = 2

Nothing == {}
Unconnected == {None}

\* what the pad called name shows at time t: the list position of the entry
\* whose image is on top, as a one-element set; Nothing for the bare video
RECURSIVE Visible(_, _, _, _, _)
Visible(stages, subtitles, name, t, fuel) ==
    IF name = InputPad(0) THEN Nothing
    ELSE IF fuel = 0 \/ ~ \E i \in 1..Len(stages) : StageOutput(stages[i]) = name
    THEN Unconnected
    ELSE LET stage == stages[CHOOSE i \in 1..Len(stages) :
                                 StageOutput(stages[i]) = name]
             inputs == StageInputs(stage)
         IN  IF StageFilter(stage).tok = "copy"
             THEN Visible(stages, subtitles, inputs[1], t, fuel - 1)
             ELSE IF Len(inputs) # 2
                     \/ ~ \E k \in 1..Len(subtitles) : inputs[2] = InputPad(k)
             THEN Unconnected
             ELSE LET k == CHOOSE k \in 1..Len(subtitles) : inputs[2] = InputPad(k)
                  IN  IF subtitles[k].startTime <= t /\ t <= subtitles[k].endTime
                      THEN {k}
                      ELSE Visible(stages, subtitles, inputs[1], t, fuel - 1)

Containing(subtitles, t) ==
    { k \in 1..Len(subtitles) :
        subtitles[k].startTime <= t /\ t <= subtitles[k].endTime }

\* C7: at every time t the output shows the image of the last entry in list
\* order whose closed interval contains t, and the bare video when no
\* interval contains t
C7_OverlapResolution ==
    Built =>
      \A t \in TimeGrid :
        LET shown == Visible(Stages(filterComplex), relevantSubtitles,
                             "final_output", t, Len(relevantSubtitles) + 1)
            active == Containing(relevantSubtitles, t)
        IN  IF active = {}
            THEN shown = Nothing
            ELSE shown = {CHOOSE k \in active : \A j \in active : j <= k}

C7_Witness ==
    /\ Built
    /\ Len(relevantSubtitles) = 2
    /\ \E t \in TimeGrid : Containing(relevantSubtitles, t) = {1, 2}
    /\ \E t \in TimeGrid : Containing(relevantSubtitles, t) = {1}
    /\ \E t \in TimeGrid : Containing(relevantSubtitles, t) = {}

(***************************************************************************)
(* One processing run: startProcessing of the hook awaiting processVideo   *)
(* of the service and the processor.  Each action runs from one await to   *)
(* the next.  The lists explored hold fewer entries than the smallest      *)
(* batch (5), so the image loop is a single batch.                         *)
(***************************************************************************)
Range(seq) == { seq[i] : i \in 1..Len(seq) }

\* the subtitle_<index>.png names the two cleanup loops push
SubtitleImageFiles(subtitles) ==
    [i \in 1..Len(subtitles) |-> SubtitleFile(subtitles[i].index)]

\* cleanupSequentialFiles without the output file
cleanupPromises_NoOutput(videoFileName, outputFileName, subtitles) ==
    << videoFileName >> \o SubtitleImageFiles(subtitles)

\* cleanupSequentialFiles: the deleteFile calls it makes, in order
cleanupPromises(videoFileName, outputFileName, subtitles) ==
    << videoFileName, outputFileName >> \o SubtitleImageFiles(subtitles)

\* forceCleanup's fallback names subtitle_0.png .. subtitle_999.png; the
\* engine never holds an index above MaxSubs + 1 here
FallbackFiles ==
    [i \in 1..Min(FallbackLimit, MaxSubs + 2) |-> SubtitleFile(i - 1)]

\* forceCleanup: the deleteFile calls it makes, in order
filesToClean(subtitles, given) ==
    << "input.mp4", "output.mp4", "output.webm", "output.mkv", "output.avi",
       "concat_list.txt" >>
      \o (IF given THEN SubtitleImageFiles(subtitles) ELSE FallbackFiles)

\* deleteFile(...).catch(() => {}) rejecting with what deleteFile rejects with
CatchDelete_Rethrows(outcome) == outcome

\* cleanupSequentialFiles: deleteFile(...).catch(() => {}).then(() => {})
CatchDelete(outcome) == "fulfilled"

\* forceCleanup: try { await deleteFile(file) } catch {}
TryDelete(outcome) == "fulfilled"

\* forceCleanup after its Promise.all: reset, unless the outer catch took over
forceCleanupSettled(t, rejected) == IF rejected THEN t ELSE reset(t)

\* await Promise.all(cleanupPromises) goes on once every promise has
\* fulfilled, or as soon as one has rejected
AllSettled == Len(ffmpeg.pending) = 0 \/ run.rejected

\* what an engine call made now will settle with, unless terminated meanwhile
Issue(fm) == IF fm.loaded THEN "ok" ELSE NotLoaded

\* the error the awaited engine call rejects with
Rejection(tag) == IF run.inflight = "ok" THEN tag ELSE run.inflight

HookLog(text) == [line |-> "hook", message |-> text]
EngineLine == [line |-> "ffmpeg", message |-> "log"]
Delivered(t) == Range(t.logged)

\* the subscribers of the tracker write to the progress store: every log
\* line is added, and an update reaching processVideo's subscriber sets the
\* stage to "<n>% complete"
StoreAfter(store, t) ==
    [store EXCEPT !.logs = @ \cup Delivered(t),
                  !.progressStage =
                      IF t.emitted # << >> /\ "processVideo" \in t.callbacks
                      THEN "progress" ELSE @]

\* lastCall follows the calls a client makes on the tracker itself
ServiceCall(op) == UNCHANGED lastCall

\* catch (error) of processVideoSequential up to its first await
EnterCatch(t, fm, err, stepFailed) ==
    LET deletes == cleanupPromises(VideoFile, OutputFile(outputFormat),
                                   relevantSubtitles)
        t1 == error(t, "Processing failed: " \o err, TRUE)
    IN  /\ progressManager' = Call(t1)
        /\ ffmpeg' = [fm EXCEPT !.pending = @ \o deletes]
        /\ run' = [run EXCEPT !.pc = "catchCleanup",
                              !.error = err,
                              !.failure = IF stepFailed THEN err ELSE @,
                              !.inflight = Null,
                              !.rejected = FALSE,
                              !.deleteAttempts = @ \cup Range(deletes)]
        /\ progressStore' = StoreAfter(progressStore, t1)
        /\ UNCHANGED <<processor, service, videoStore, hook>>

\* loadFFmpeg, called while the engine is neither loaded nor loading, up to
\* await ffmpeg.load()
LoadFFmpeg ==
    /\ ~processor.isFFmpegLoaded /\ ~processor.isFFmpegLoading
    /\ processor.loads + run.runs < MaxStarts
    /\ ServiceCall("loadFFmpeg")
    /\ LET t1 == onProgress(onLog(reset(Call(progressManager)), "loadFFmpeg"),
                            "loadFFmpeg")
           t2 == updatePhase(setPhase(t1, "parsing-subtitles"), Pct(10))
       IN  /\ progressManager' = Call(t2)
           /\ progressStore' = StoreAfter(progressStore, t2)
    /\ processor' = [processor EXCEPT !.isFFmpegLoading = TRUE, !.loads = @ + 1]
    /\ ffmpeg' = [ffmpeg EXCEPT !.handlers = TRUE, !.loading = "ok"]
    /\ UNCHANGED <<run, videoStore, hook, relevantSubtitles, outputFormat, filterComplex>>
    /\ UNCHANGED service

\* ffmpeg.load() settles: the rest of loadFFmpeg and of the hook's initializeService
LoadSettled(fail) ==
    /\ ffmpeg.loading # Null
    /\ ServiceCall("loadFFmpeg")
    /\ IF ffmpeg.loading = "ok" /\ ~fail
       THEN LET t1 == complete(Call(progressManager))
            IN  /\ progressManager' = Call(t1)
                /\ ffmpeg' = [ffmpeg EXCEPT !.loaded = TRUE, !.loading = Null,
                                            !.files = {}]
                /\ processor' = [processor EXCEPT !.isFFmpegLoaded = TRUE,
                                                  !.isFFmpegLoading = FALSE]
                /\ videoStore' = [videoStore EXCEPT !.ffmpegLoaded = TRUE]
                /\ progressStore' =
                      [StoreAfter(progressStore, t1) EXCEPT !.logs =
                           @ \cup {HookLog("FFmpeg loaded successfully")}]
       ELSE LET err == IF ffmpeg.loading = "ok" THEN "load failed" ELSE ffmpeg.loading
                t1 == error(Call(progressManager), "FFmpeg loading failed: " \o err, TRUE)
            IN  /\ progressManager' = Call(t1)
                /\ ffmpeg' = [ffmpeg EXCEPT !.loading = Null]
                /\ processor' = [processor EXCEPT !.isFFmpegLoading = FALSE]
                /\ videoStore' = [videoStore EXCEPT !.error = "Failed to load FFmpeg: " \o err]
                /\ progressStore' =
                      [StoreAfter(progressStore, t1) EXCEPT !.logs =
                           @ \cup {HookLog("FFmpeg load error: " \o err)}]
    /\ UNCHANGED <<run, hook, relevantSubtitles, outputFormat, filterComplex>>
    /\ UNCHANGED service

\* the Start button is enabled (ProcessingButton) and clicked: startProcessing
\* up to await forceCleanup(), whose deleteFile calls are now in flight
StartProcessing ==
    /\ run.pc = "idle" /\ processor.loads + run.runs < MaxStarts
    /\ Len(relevantSubtitles) > 0
    /\ ~videoStore.isProcessing /\ videoStore.ffmpegLoaded
    /\ ServiceCall("startProcessing")
    /\ videoStore' = [videoStore EXCEPT !.isProcessing = TRUE, !.downloadUrl = FALSE,
                                        !.error = Null, !.isCancelling = FALSE]
    /\ progressStore' = [progressStore EXCEPT !.progressStage = ""]
    /\ hook' = [hook EXCEPT !.seenError = videoStore.error,
                            !.seenStage = progressStore.progressStage]
    /\ ffmpeg' = [ffmpeg EXCEPT !.pending = @ \o filesToClean(<< >>, FALSE)]
    /\ run' = [IdleRun EXCEPT !.pc = "preCleanup", !.runs = run.runs + 1]
    /\ progressManager' = Call(progressManager)
    /\ UNCHANGED <<processor, service, relevantSubtitles, outputFormat, filterComplex>>

\* the oldest deleteFile in flight settles: it fulfils when the engine is
\* loaded and holds the file, and rejects otherwise
DeleteSettles ==
    /\ Len(ffmpeg.pending) > 0
    /\ ServiceCall("deleteFile")
    /\ LET file == Head(ffmpeg.pending)
           ok == ffmpeg.loaded /\ file \in ffmpeg.files
           outcome == IF ok THEN "fulfilled" ELSE "rejected"
           wrapped == IF run.pc \in {"cleanup", "catchCleanup"}
                      THEN CatchDelete(outcome) ELSE TryDelete(outcome)
       IN  /\ ffmpeg' = [ffmpeg EXCEPT !.pending = Tail(@),
                                       !.files = IF ok THEN @ \ {file} ELSE @]
           /\ run' = [run EXCEPT !.rejected = @ \/ wrapped = "rejected",
                                 !.deleteFailed = @ \/ (~ok /\ run.pc # "preCleanup"
                                                            /\ run.pc # "postCleanup")]
    /\ progressManager' = Call(progressManager)
    /\ UNCHANGED <<processor, service, videoStore, progressStore, hook,
                   relevantSubtitles, outputFormat, filterComplex>>

\* forceCleanup() has settled: the hook goes on into processVideo and
\* processVideoSequential, up to await writeFile("input.mp4")
ProcessVideo ==
    /\ run.pc = "preCleanup" /\ AllSettled
    /\ ServiceCall("processVideo")
    /\ LET t1 == forceCleanupSettled(Call(progressManager), run.rejected)
           t2 == onProgress(onLog(reset(t1), "processVideo"), "processVideo")
           t3 == updatePhase(setPhase(t2, "parsing-subtitles"), Pct(10))
       IN  /\ progressManager' = Call(t3)
           /\ progressStore' =
                 [StoreAfter(progressStore, t3) EXCEPT !.logs =
                      @ \cup {HookLog("Previous session cleaned up"),
                               HookLog("Starting video processing...")}]
    /\ run' = [run EXCEPT !.pc = "writeInput", !.inflight = Issue(ffmpeg),
                          !.rejected = FALSE]
    /\ UNCHANGED <<ffmpeg, processor, service, videoStore, hook,
                   relevantSubtitles, outputFormat, filterComplex>>

\* writeFile("input.mp4") settles; on success the image loop starts
WriteInputSettled(fail) ==
    /\ run.pc = "writeInput"
    /\ ServiceCall("processVideoSequential")
    /\ UNCHANGED <<relevantSubtitles, outputFormat, filterComplex>>
    /\ IF run.inflight = "ok" /\ ~fail
       THEN LET t1 == updatePhase(Call(progressManager), Pct(30))
            IN  /\ progressManager' = Call(t1)
                /\ ffmpeg' = [ffmpeg EXCEPT !.files = @ \cup {VideoFile}]
                /\ run' = [run EXCEPT !.pc = "toBlob", !.inflight = Null, !.k = 0,
                                      !.written = Append(@, VideoFile)]
                /\ progressStore' = StoreAfter(progressStore, t1)
                /\ UNCHANGED <<processor, service, videoStore, hook>>
       ELSE EnterCatch(Call(progressManager), ffmpeg, Rejection("writeFile failed"), TRUE)

\* an image loop that takes the entries last to first
batchEntry_Backwards(subtitles, k) == subtitles[Len(subtitles) - k]

\* the entry the image loop handles after k images: batch[i] of the one batch
\* (a batch holds 5 entries or more)
batchEntry(subtitles, k) == subtitles[k + 1]

\* canvas.toBlob and blob.arrayBuffer settle for the next entry; its image
\* is then written to the engine
ImageSettled(fail) ==
    /\ run.pc = "toBlob"
    /\ ServiceCall("createOptimizedSubtitleImages")
    /\ UNCHANGED <<relevantSubtitles, outputFormat, filterComplex>>
    /\ IF ~fail
       THEN /\ run' = [run EXCEPT !.pc = "writeImage", !.inflight = Issue(ffmpeg),
                                  !.subtitleImages = @ \cup
                                      {SubtitleFile(batchEntry(relevantSubtitles, run.k).index)}]
            /\ progressManager' = Call(progressManager)
            /\ UNCHANGED <<ffmpeg, processor, service, videoStore, progressStore, hook>>
       ELSE EnterCatch(Call(progressManager), ffmpeg, "image creation failed", TRUE)

\* Math.round(((batchStart + i + 1) / subtitles.length) * 100)
individualProgress(done, total) == (200 * done + total) \div (2 * total)

\* writeFile(subtitle_<index>.png) settles
WriteImageSettled(fail) ==
    /\ run.pc = "writeImage"
    /\ ServiceCall("createOptimizedSubtitleImages")
    /\ UNCHANGED <<relevantSubtitles, outputFormat, filterComplex>>
    /\ IF run.inflight = "ok" /\ ~fail
       THEN LET subtitle == batchEntry(relevantSubtitles, run.k)
                prog == individualProgress(run.k + 1, Len(relevantSubtitles))
                t1 == updatePhase(Call(progressManager), Pct(30) + prog * 7)
            IN  /\ progressManager' = Call(t1)
                /\ ffmpeg' = [ffmpeg EXCEPT !.files = @ \cup {SubtitleFile(subtitle.index)}]
                /\ run' = [run EXCEPT !.k = @ + 1, !.inflight = Null,
                                      !.pc = IF run.k + 1 = Len(relevantSubtitles)
                                             THEN "batchYield" ELSE "toBlob",
                                      !.subtitleImages = @ \ {SubtitleFile(subtitle.index)},
                                      !.written = Append(@, SubtitleFile(subtitle.index))]
                /\ progressStore' = StoreAfter(progressStore, t1)
                /\ UNCHANGED <<processor, service, videoStore, hook>>
       ELSE EnterCatch(Call(progressManager), ffmpeg, Rejection("writeFile failed"), TRUE)

\* the 5 ms yield after the batch ends: phase 1 is closed, the filter graph
\* is built and exec is called
ExecIssued ==
    /\ run.pc = "batchYield"
    /\ ServiceCall("processWithUnifiedFilter")
    /\ LET t1 == setPhase(updatePhase(Call(progressManager), Pct(100)), "processing-video")
           t2 == updatePhase(updatePhase(updatePhase(t1, 0), Pct(2)), 0)
       IN  /\ progressManager' = Call(t2)
           /\ progressStore' = StoreAfter(progressStore, t2)
    /\ filterComplex' = buildOptimizedFilterComplex(relevantSubtitles)
    /\ run' = [run EXCEPT !.pc = "exec", !.inflight = Issue(ffmpeg),
                          !.ffmpegArgs = ffmpegArgs(relevantSubtitles, outputFormat,
                                             MergeOptions(videoStore.processingOptions))]
    /\ UNCHANGED <<ffmpeg, processor, service, videoStore, hook, relevantSubtitles, outputFormat>>

\* videoInfo.duration of the video processed
VideoDuration == 10 * UnitsPerSecond
\* the engine reports a "log" line while it encodes: the handler of
\* loadFFmpeg and progressAwareLogHandler both run
EngineLog(line) ==
    /\ run.pc = "exec" /\ run.inflight = "ok"
    /\ ServiceCall("progressAwareLogHandler")
    /\ LET t1 == parseFFmpegLog(Call(progressManager), line, VideoDuration)
       IN  /\ progressManager' = Call(t1)
           /\ progressStore' = [StoreAfter(progressStore, t1) EXCEPT !.logs =
                                    @ \cup {EngineLine}]
    /\ UNCHANGED <<ffmpeg, processor, service, run, videoStore, hook,
                   relevantSubtitles, outputFormat, filterComplex>>

\* the engine reports "progress" while it encodes: the handler loadFFmpeg
\* registered is still there
EngineProgress(progress) ==
    /\ run.pc = "exec" /\ run.inflight = "ok" /\ ffmpeg.handlers
    /\ ServiceCall("progressHandler")
    /\ LET t1 == updatePhase(Call(progressManager), progress)
       IN  /\ progressManager' = Call(t1)
           /\ progressStore' = StoreAfter(progressStore, t1)
    /\ UNCHANGED <<ffmpeg, processor, service, run, videoStore, hook,
                   relevantSubtitles, outputFormat, filterComplex>>

\* exec settles; on success the output file is there (possibly empty) and
\* readFile is called
ExecSettled(fail, empty) ==
    /\ run.pc = "exec"
    /\ ServiceCall("processWithUnifiedFilter")
    /\ UNCHANGED <<relevantSubtitles, outputFormat, filterComplex>>
    /\ IF run.inflight = "ok" /\ ~fail
       THEN LET t1 == updatePhase(updatePhase(Call(progressManager), Pct(100)), Pct(100))
            IN  /\ progressManager' = Call(t1)
                /\ ffmpeg' = [ffmpeg EXCEPT !.files = @ \cup {OutputFile(outputFormat)}]
                /\ run' = [run EXCEPT !.pc = "readFile", !.inflight = Issue(ffmpeg),
                                      !.outputEmpty = empty]
                /\ progressStore' = StoreAfter(progressStore, t1)
                /\ UNCHANGED <<processor, service, videoStore, hook>>
       ELSE EnterCatch(Call(progressManager), ffmpeg, Rejection("exec failed"), TRUE)

\* readFile settles; with data in hand cleanupSequentialFiles is called
ReadSettled(fail) ==
    /\ run.pc = "readFile"
    /\ ServiceCall("processVideoSequential")
    /\ UNCHANGED <<relevantSubtitles, outputFormat, filterComplex>>
    /\ IF run.inflight = "ok" /\ ~fail /\ OutputFile(outputFormat) \in ffmpeg.files
       THEN IF run.outputEmpty
            THEN EnterCatch(Call(progressManager), ffmpeg, "Final output file is empty", TRUE)
            ELSE LET deletes == cleanupPromises(VideoFile, OutputFile(outputFormat),
                                                relevantSubtitles)
                 IN  /\ ffmpeg' = [ffmpeg EXCEPT !.pending = @ \o deletes]
                     /\ run' = [run EXCEPT !.pc = "cleanup", !.inflight = Null,
                                           !.rejected = FALSE,
                                           !.deleteAttempts = @ \cup Range(deletes)]
                     /\ progressManager' = Call(progressManager)
                     /\ UNCHANGED <<processor, service, videoStore, progressStore, hook>>
       ELSE EnterCatch(Call(progressManager), ffmpeg, Rejection("readFile failed"), TRUE)

\* cleanupSequentialFiles of the try block has settled: complete(), the URL
\* is made, and finally calls forceCleanup
CleanupDone ==
    /\ run.pc = "cleanup" /\ AllSettled
    /\ ServiceCall("processVideoSequential")
    /\ UNCHANGED <<relevantSubtitles, outputFormat, filterComplex>>
    /\ IF run.rejected
       THEN EnterCatch(Call(progressManager), ffmpeg, "deleteFile failed", FALSE)
       ELSE LET t1 == complete(updatePhase(Call(progressManager), Pct(100)))
                deletes == filesToClean(relevantSubtitles, TRUE)
            IN  /\ progressManager' = Call(t1)
                /\ ffmpeg' = [ffmpeg EXCEPT !.pending = @ \o deletes]
                /\ run' = [run EXCEPT !.pc = "finally", !.completeTimer = t1.timerSeq,
                                      !.deleteAttempts = @ \cup Range(deletes)]
                /\ progressStore' = StoreAfter(progressStore, t1)
                /\ UNCHANGED <<processor, service, videoStore, hook>>

\* cleanupSequentialFiles of the catch block has settled: forceCleanup is
\* called (a rejection here would leave the catch block with a new error)
CatchCleanupDone ==
    /\ run.pc = "catchCleanup" /\ AllSettled
    /\ ServiceCall("processVideoSequential")
    /\ LET deletes == filesToClean(relevantSubtitles, TRUE)
       IN  /\ ffmpeg' = [ffmpeg EXCEPT !.pending = @ \o deletes]
           /\ run' = [run EXCEPT !.pc = IF run.rejected THEN "finally" ELSE "catchForce",
                                 !.error = IF run.rejected THEN "deleteFile failed" ELSE @,
                                 !.rejected = FALSE,
                                 !.deleteAttempts = @ \cup Range(deletes)]
    /\ progressManager' = Call(progressManager)
    /\ UNCHANGED <<processor, service, videoStore, progressStore, hook,
                   relevantSubtitles, outputFormat, filterComplex>>

\* forceCleanup of the catch block has settled: the error is rethrown and
\* finally calls forceCleanup again
CatchForceDone ==
    /\ run.pc = "catchForce" /\ AllSettled
    /\ ServiceCall("processVideoSequential")
    /\ LET deletes == filesToClean(relevantSubtitles, TRUE)
       IN  /\ ffmpeg' = [ffmpeg EXCEPT !.pending = @ \o deletes]
           /\ run' = [run EXCEPT !.pc = "finally", !.rejected = FALSE,
                                 !.deleteAttempts = @ \cup Range(deletes)]
    /\ progressManager' = forceCleanupSettled(Call(progressManager), run.rejected)
    /\ UNCHANGED <<processor, service, videoStore, progressStore, hook,
                   relevantSubtitles, outputFormat, filterComplex>>

\* forceCleanup of the finally block has settled: processVideoSequential
\* returns the URL or rejects with the error
FinallyDone ==
    /\ run.pc = "finally" /\ AllSettled
    /\ ServiceCall("processVideoSequential")
    /\ progressManager' = forceCleanupSettled(Call(progressManager), run.rejected)
    /\ run' = [run EXCEPT !.pc = "returned", !.rejected = FALSE]
    /\ UNCHANGED <<ffmpeg, processor, service, videoStore, progressStore, hook,
                   relevantSubtitles, outputFormat, filterComplex>>

\* the 2000 ms reset the finally block of startProcessing arms
HookTimer == [error |-> hook.seenError, stage |-> hook.seenStage]

\* startProcessing goes on after processVideo: on success up to await
\* forceCleanup(relevantSubtitles), on failure through catch and finally
HookContinues ==
    /\ run.pc = "returned"
    /\ ServiceCall("startProcessing")
    /\ progressManager' = Call(progressManager)
    /\ UNCHANGED <<processor, service, relevantSubtitles, outputFormat, filterComplex>>
    /\ IF run.error = Null
       THEN /\ videoStore' = [videoStore EXCEPT !.downloadUrl = TRUE]
            /\ progressStore' =
                  [progressStore EXCEPT !.progressStage = "Completed",
                       !.logs = @ \cup {HookLog("Video processing completed successfully!")}]
            /\ ffmpeg' = [ffmpeg EXCEPT !.pending = @ \o filesToClean(relevantSubtitles, TRUE)]
            /\ run' = [run EXCEPT !.pc = "postCleanup", !.rejected = FALSE]
            /\ UNCHANGED hook
       ELSE /\ IF run.error = Sentinel
               THEN /\ progressStore' =
                          [progressStore EXCEPT !.progressStage = "Cancelled",
                               !.logs = @ \cup {HookLog("Processing cancelled by user")}]
                    /\ videoStore' = [videoStore EXCEPT !.isProcessing = FALSE,
                                                        !.isCancelling = FALSE]
                    /\ hook' = [hook EXCEPT !.timers = @ \cup {HookTimer}]
               ELSE /\ progressStore' =
                          [progressStore EXCEPT !.progressStage = "Error",
                               !.logs = @ \cup {HookLog("Processing error: " \o run.error)}]
                    /\ videoStore' = [videoStore EXCEPT
                                          !.error = "Processing failed: " \o run.error,
                                          !.isProcessing = FALSE, !.isCancelling = FALSE]
                    /\ hook' = [hook EXCEPT !.handleError = run.error,
                                            !.timers = @ \cup {HookTimer}]
            /\ run' = [run EXCEPT !.pc = "idle"]
            /\ UNCHANGED ffmpeg

\* forceCleanup after a successful run has settled: the finally block
PostCleanupDone ==
    /\ run.pc = "postCleanup" /\ AllSettled
    /\ ServiceCall("startProcessing")
    /\ progressManager' = forceCleanupSettled(Call(progressManager), run.rejected)
    /\ progressStore' = [progressStore EXCEPT !.logs =
                             @ \cup {HookLog("FFmpeg memory cleaned up")}]
    /\ videoStore' = [videoStore EXCEPT !.isProcessing = FALSE, !.isCancelling = FALSE]
    /\ hook' = [hook EXCEPT !.timers = @ \cup {HookTimer}]
    /\ run' = [run EXCEPT !.pc = "idle", !.rejected = FALSE]
    /\ UNCHANGED <<ffmpeg, processor, service, relevantSubtitles, outputFormat, filterComplex>>

\* a 2000 ms reset of startProcessing fires; a continuation of the run that
\* is ready to go on runs first
HookTimerFires(timer) ==
    /\ timer \in hook.timers /\ run.pc # "returned"
    /\ ServiceCall("startProcessing")
    /\ hook' = [hook EXCEPT !.timers = @ \ {timer}]
    /\ progressStore' = [progressStore EXCEPT !.progressStage = ""]
    /\ videoStore' = [videoStore EXCEPT !.downloadUrl =
                          IF timer.error # Null \/ timer.stage = "Cancelled"
                          THEN FALSE ELSE @]
    /\ progressManager' = Call(progressManager)
    /\ UNCHANGED <<ffmpeg, processor, service, run, relevantSubtitles, outputFormat, filterComplex>>

\* a delayed reset armed by complete() fires
DelayedReset(id) ==
    /\ id \in progressManager.pendingResets /\ run.pc # "returned"
    /\ ServiceCall("resetTimer")
    /\ progressManager' = [reset(Call(progressManager)) EXCEPT !.pendingResets = @ \ {id}]
    /\ UNCHANGED <<relevantSubtitles, outputFormat, filterComplex>>
    /\ UNCHANGED serviceVars

\* cancelProcessing of the processor while a run is in progress on a loaded
\* engine: the engine is terminated, which rejects the calls in flight with
\* the sentinel
CancelProcessing ==
    /\ run.pc # "returned"
    /\ videoStore.isProcessing /\ ffmpeg.loaded
    /\ ServiceCall("cancelProcessing")
    /\ ffmpeg' = [ffmpeg EXCEPT !.loaded = FALSE, !.files = {},
                                !.loading = IF @ = Null THEN Null ELSE Sentinel]
    /\ run' = [run EXCEPT !.inflight = IF @ = "ok" THEN Sentinel ELSE @]
    /\ processor' = [processor EXCEPT !.isFFmpegLoaded = FALSE,
                                      !.isFFmpegLoading = FALSE]
    /\ progressManager' = reset(Call(progressManager))
    /\ UNCHANGED <<videoStore, progressStore, hook,
                   relevantSubtitles, outputFormat, filterComplex>>
    /\ UNCHANGED service

\* the lists a run is started with: entries 2, 3, ... of a file whose first
\* entry was filtered out, each spanning the whole grid
RunLists ==
    { l \in SubtitleLists :
        /\ Len(l) > 0
        /\ \A i \in 1..Len(l) :
              l[i].index = i + 1 /\ l[i].startTime = 0 /\ l[i].endTime = MaxTime }
\* "mov" stands for a format forceCleanup's fixed list does not name
OutputFormats == {"mp4", "mov"}
RunLogLines ==
    { [time |-> 5 * UnitsPerSecond, frame |-> None, fps |-> None],
      [time |-> None, frame |-> None, fps |-> None] }
ProgressEvents == {Pct(50)}

Init ==
    /\ progressManager = NewProgressManager
    /\ relevantSubtitles \in RunLists
    /\ outputFormat \in OutputFormats
    /\ filterComplex = << >>
    /\ lastCall = Record("constructor", << >>)
    /\ InitService

Next ==
    \/ LoadFFmpeg
    \/ \E fail \in BOOLEAN : LoadSettled(fail)
    \/ StartProcessing
    \/ DeleteSettles
    \/ ProcessVideo
    \/ \E fail \in BOOLEAN : WriteInputSettled(fail)
    \/ \E fail \in BOOLEAN : ImageSettled(fail)
    \/ \E fail \in BOOLEAN : WriteImageSettled(fail)
    \/ ExecIssued
    \/ \E line \in RunLogLines : EngineLog(line)
    \/ \E progress \in ProgressEvents : EngineProgress(progress)
    \/ \E fail \in BOOLEAN, empty \in BOOLEAN : ExecSettled(fail, empty)
    \/ \E fail \in BOOLEAN : ReadSettled(fail)
    \/ CleanupDone
    \/ CatchCleanupDone
    \/ CatchForceDone
    \/ FinallyDone
    \/ HookContinues
    \/ PostCleanupDone
    \/ \E timer \in hook.timers : HookTimerFires(timer)
    \/ \E id \in progressManager.pendingResets : DelayedReset(id)
    \/ CancelProcessing

Spec == Init /\ [][Next]_vars

\* every file name the run wrote or could have produced
RunFiles ==
    {VideoFile, OutputFile(outputFormat)} \cup Range(SubtitleImageFiles(relevantSubtitles))

\* C3: whatever the outcome of a run of processVideoSequential, by the time
\* it returns or rejects a deleteFile has been attempted for input.mp4, for
\* output.<format> and for subtitle_<index>.png of every relevant subtitle
C3_CleanupAttempted ==
    run.pc = "returned" => RunFiles \subseteq run.deleteAttempts

\* exec rejected after the video and every image were written
C3_Witness ==
    /\ run.pc = "returned"
    /\ run.failure = "exec failed"
    /\ run.k = Len(relevantSubtitles)
    /\ outputFormat = "mov"

\* C4: the caller observes the outcome only once every deleteFile of the
\* cleanup has settled, and the outcome is the error of the step that
\* failed (none when no step failed), whatever the deleteFile calls did
C4_FailurePropagates ==
    run.pc = "returned" =>
        /\ Len(ffmpeg.pending) = 0
        /\ run.error = run.failure

\* a run that failed and whose cleanup met a rejecting deleteFile
C4_Witness ==
    /\ run.pc = "returned"
    /\ run.failure = "exec failed"
    /\ run.error = "exec failed"
    /\ run.deleteFailed

\* C5: a run rejected with the termination sentinel leaves the tracker out
\* of phase 'error', has no 'Processing failed' error logged, stores no
\* error in videoStore.error and does not reach handleError; a run
\* rejected with any other error reaches handleError
C5_CancellationDistinct ==
    /\ (run.error = Sentinel /\ run.pc \in {"catchCleanup", "catchForce", "finally", "returned"})
          => /\ progressManager.currentPhase # "error"
             /\ \A l \in progressStore.logs :
                   ~(l.line = "Error" /\ l.message = "Processing failed: " \o Sentinel)
    /\ (run.error = Sentinel /\ run.pc = "idle")
          => /\ videoStore.error # "Processing failed: " \o Sentinel
             /\ hook.handleError # Sentinel
    /\ (run.error \notin {Null, Sentinel} /\ run.pc = "idle")
          => hook.handleError = run.error

\* C9: right after a successful run of processVideoSequential has returned,
\* and before the delayed reset armed by its complete() has fired, the
\* tracker is in phase 'completed' at 100%
C9_CompletedUntilDelay ==
    (/\ run.pc = "returned"
     /\ run.error = Null
     /\ run.completeTimer \in progressManager.pendingResets)
        => /\ progressManager.currentPhase = "completed"
           /\ progressManager.phaseProgress = Pct(100)

TextLine(chars) == [kind |-> "text", chars |-> chars]
NumberLine(n) == [kind |-> "number", n |-> n]
Stamp(h, m, s, ms) == [h |-> h, m |-> m, s |-> s, ms |-> ms]
TimeLine(start, end, sep) == [kind |-> "time", start |-> start, end |-> end, sep |-> sep]
ArrowLine == [kind |-> "arrow"]
NoteLine == [kind |-> "note"]
BlankLine == TextLine(<< >>)

SubtitleEntry(index, startTime, endTime, text) ==
    [index |-> index, startTime |-> startTime, endTime |-> endTime, text |-> text]

\* line.trim() === ''
IsBlank(line) ==
    line.kind = "text" /\ \A i \in 1..Len(line.chars) : line.chars[i] = " "

RECURSIVE TrimStart(_)
TrimStart(chars) ==
    IF chars # << >> /\ Head(chars) = " " THEN TrimStart(Tail(chars)) ELSE chars

RECURSIVE TrimEnd(_)
TrimEnd(chars) ==
    IF chars # << >> /\ chars[Len(chars)] = " "
    THEN TrimEnd(SubSeq(chars, 1, Len(chars) - 1)) ELSE chars

Trim(chars) == TrimEnd(TrimStart(chars))

\* parseInt of a line: the digits it starts with, NaN (None) if it starts
\* with none; a time line starts with its hours
parseInt(line) ==
    CASE line.kind = "number" -> line.n
      [] line.kind = "time"   -> line.start.h
      [] line.kind = "arrow"  -> 0
      [] OTHER                -> None

\* hours * 3600 + minutes * 60 + seconds + millis / 1000, in time units
StampTime(stamp) ==
    (stamp.h * 3600 + stamp.m * 60 + stamp.s) * UnitsPerSecond
        + stamp.ms * (UnitsPerSecond \div 1000)

\* the characters of a line as text of an entry
LineChars(line) ==
    CASE line.kind = "text"   -> line.chars
      [] line.kind = "number" -> << "a" >>
      [] line.kind = "note"   -> << "a", "a" >>
      [] OTHER                -> << "a", " ", "a" >>

RECURSIVE JoinLines(_)
\* lines.join(' ')
JoinLines(lines) ==
    IF lines = << >> THEN << >>
    ELSE IF Len(lines) = 1 THEN LineChars(lines[1])
    ELSE LineChars(lines[1]) \o << " " >> \o JoinLines(Tail(lines))

\* the replace() chain of parseSrtFile and its trim()
Sanitize(chars) == Trim(SelectSeq(chars, LAMBDA c : c \in {"a", " "}))

\* the blocks of srtContent.trim().split(/\n\s*\n/), each trimmed and split
\* into lines: the runs of lines that are not blank (a content of blank
\* lines only gives one block of one empty line, which holds no entry)
RECURSIVE SplitBlocks(_, _, _)
SplitBlocks(lines, current, blocks) ==
    IF lines = << >>
    THEN IF current = << >> THEN blocks ELSE Append(blocks, current)
    ELSE IF IsBlank(Head(lines))
         THEN SplitBlocks(Tail(lines), << >>,
                          IF current = << >> THEN blocks ELSE Append(blocks, current))
         ELSE SplitBlocks(Tail(lines), Append(current, Head(lines)), blocks)

Blocks(lines) == SplitBlocks(lines, << >>, << >>)

\* text.substring(0, 100)
TextLimit == 100

\* the body of parseSrtFile's loop: the entries one block pushes
parseSrtBlock(block) ==
    IF Len(block) >= 3
    THEN LET index == parseInt(block[1])
             timeMatch == block[2].kind = "time"
         IN  IF timeMatch /\ index # None
             THEN LET startTime == StampTime(block[2].start)
                      endTime == StampTime(block[2].end)
                      text == Sanitize(JoinLines(SubSeq(block, 3, Len(block))))
                  IN  IF text # << >> /\ startTime < endTime
                      THEN << SubtitleEntry(index, startTime, endTime,
                                            SubSeq(text, 1, Min(Len(text), TextLimit))) >>
                      ELSE << >>
             ELSE << >>
    ELSE << >>

\* Array.prototype.sort((a, b) => a.startTime - b.startTime): stable
RECURSIVE SortByStart(_)
SortByStart(entries) ==
    IF entries = << >>
    THEN << >>
    ELSE LET last == entries[Len(entries)]
             sorted == SortByStart(SubSeq(entries, 1, Len(entries) - 1))
             before == SelectSeq(sorted, LAMBDA e : e.startTime <= last.startTime)
             after == SelectSeq(sorted, LAMBDA e : e.startTime > last.startTime)
         IN  before \o << last >> \o after

RECURSIVE PushBlocks(_, _)
PushBlocks(subtitles, blocks) ==
    IF blocks = << >>
    THEN subtitles
    ELSE PushBlocks(subtitles \o parseSrtBlock(Head(blocks)), Tail(blocks))

\* a parser that leaves the entries in file order
parseSrtFile_Unsorted(srtContent) == PushBlocks(<< >>, Blocks(srtContent))

parseSrtFile(srtContent) == SortByStart(PushBlocks(<< >>, Blocks(srtContent)))

\* text.trim() of the lines of a cue, each followed by '\n'
TrimText(text) ==
    [i \in 1..Len(text) |->
        IF text[i].kind # "text" THEN text[i]
        ELSE TextLine(LET c1 == IF i = 1 THEN TrimStart(text[i].chars) ELSE text[i].chars
                      IN  IF i = Len(text) THEN TrimEnd(c1) ELSE c1)]

\* one iteration of convertVttToSrt's loop; st holds its local variables
VttLine(st, line) ==
    IF line.kind \in {"time", "arrow"}
    THEN IF line.kind = "time" /\ line.sep = "."
         THEN [st EXCEPT !.startTime = line.start, !.endTime = line.end,
                         !.inCue = TRUE, !.text = << >>]
         ELSE st
    ELSE IF st.inCue /\ IsBlank(line)
         THEN [st EXCEPT !.inCue = FALSE,
                         !.srtContent =
                             IF st.text # << >>
                             THEN @ \o << NumberLine(st.counter),
                                          TimeLine(st.startTime, st.endTime, ",") >>
                                    \o TrimText(st.text) \o << BlankLine >>
                             ELSE @,
                         !.counter = IF st.text # << >> THEN @ + 1 ELSE @]
         ELSE IF st.inCue /\ ~IsBlank(line) /\ line.kind # "note"
              THEN [st EXCEPT !.text = Append(@, line)]
              ELSE st

RECURSIVE VttLoop(_, _)
VttLoop(st, lines) ==
    IF lines = << >> THEN st ELSE VttLoop(VttLine(st, Head(lines)), Tail(lines))

\* the lines of the string returned: those of its blocks, and the empty
\* line after the last newline (the whole of an empty string)
convertVttToSrt(vttContent) ==
    VttLoop([srtContent |-> << >>, counter |-> 1, inCue |-> FALSE,
             startTime |-> Stamp(0, 0, 0, 0), endTime |-> Stamp(0, 0, 0, 0),
             text |-> << >>],
            vttContent).srtContent \o << BlankLine >>

\* ASS/SSA files are not among the files tried
parseSubtitleFile(file) ==
    parseSrtFile(IF file.ext = "vtt" THEN convertVttToSrt(file.lines) ELSE file.lines)

\* filterSubtitlesByDuration keeping the entries that start at the end of
\* the video
filterSubtitlesByDuration_Inclusive(subtitles, videoDuration) ==
    LET kept == SelectSeq(subtitles, LAMBDA sub : sub.startTime <= videoDuration)
        filteredSubtitles ==
            [i \in 1..Len(kept) |->
                [kept[i] EXCEPT !.endTime = Min(kept[i].endTime, videoDuration)]]
    IN  [filteredSubtitles |-> filteredSubtitles,
         stats |-> [total |-> Len(subtitles),
                    relevant |-> Len(filteredSubtitles),
                    filtered |-> Len(subtitles) - Len(filteredSubtitles)]]

\* filterSubtitlesByDuration storing the clipped length of an entry for
\* its end
filterSubtitlesByDuration_StoresLength(subtitles, videoDuration) ==
    LET kept == SelectSeq(subtitles, LAMBDA sub : sub.startTime < videoDuration)
        filteredSubtitles ==
            [i \in 1..Len(kept) |->
                [kept[i] EXCEPT !.endTime =
                    Min(kept[i].endTime, videoDuration) - kept[i].startTime]]
    IN  [filteredSubtitles |-> filteredSubtitles,
         stats |-> [total |-> Len(subtitles),
                    relevant |-> Len(filteredSubtitles),
                    filtered |-> Len(subtitles) - Len(filteredSubtitles)]]

\* stats.avgDuration and stats.totalDuration, which no reader of the stats
\* in the hook uses, are not held
filterSubtitlesByDuration(subtitles, videoDuration) ==
    LET kept == SelectSeq(subtitles, LAMBDA sub : sub.startTime < videoDuration)
        filteredSubtitles ==
            [i \in 1..Len(kept) |->
                [kept[i] EXCEPT !.endTime = Min(kept[i].endTime, videoDuration)]]
    IN  [filteredSubtitles |-> filteredSubtitles,
         stats |-> [total |-> Len(subtitles),
                    relevant |-> Len(filteredSubtitles),
                    filtered |-> Len(subtitles) - Len(filteredSubtitles)]]

(***************************************************************************)
(* The hook's file handlers, called with a file.  Each is the body its      *)
(* debounce runs, 300 ms after the selection.  setSubtitleFile overwrites   *)
(* all that the previous subtitle file left, so one subtitle file is        *)
(* followed, selected any number of times.  The video store's videoFile is  *)
(* not held.                                                                *)
(***************************************************************************)
addLog(store, text) == [store EXCEPT !.logs = @ \cup {HookLog(text)}]

\* rejected: file.text() rejects
SetSubtitleFile(file, rejected) ==
    /\ videoStore.subtitleFile \in {<< >>, << file >>}
    /\ IF rejected
       THEN /\ videoStore' = [videoStore EXCEPT !.subtitleFile = << file >>,
                                 !.error = "Failed to parse subtitle file: read failed"]
            /\ UNCHANGED <<relevantSubtitles, progressStore>>
       ELSE LET parsed == parseSubtitleFile(file)
                store1 == addLog(progressStore, "Parsed subtitle entries")
            IN  IF videoStore.videoInfo # << >>
                THEN LET result == filterSubtitlesByDuration(
                                       parsed, videoStore.videoInfo[1].duration)
                     IN  /\ videoStore' = [videoStore EXCEPT
                                              !.subtitleFile = << file >>,
                                              !.error = Null,
                                              !.parsedSubtitles = parsed,
                                              !.subtitleStats = << result.stats >>]
                         /\ relevantSubtitles' = result.filteredSubtitles
                         /\ progressStore' = addLog(store1, "Subtitle optimization")
                ELSE /\ videoStore' = [videoStore EXCEPT
                                          !.subtitleFile = << file >>,
                                          !.error = Null,
                                          !.parsedSubtitles = parsed,
                                          !.subtitleStats =
                                              << [total |-> Len(parsed),
                                                  relevant |-> Len(parsed),
                                                  filtered |-> 0] >>]
                     /\ relevantSubtitles' = parsed
                     /\ progressStore' = store1
    /\ UNCHANGED <<progressManager, lastCall, outputFormat, filterComplex,
                   ffmpeg, processor, service, run, hook>>

\* duration: the duration the video element reports; rejected: it reports
\* an error instead
SetVideoFile(duration, rejected) ==
    /\ IF rejected
       THEN /\ videoStore' = [videoStore EXCEPT !.error = Null]
            /\ progressStore' = addLog(progressStore, "Could not get video info")
            /\ UNCHANGED relevantSubtitles
       ELSE LET store1 == addLog(progressStore, "Video info")
            IN  IF Len(videoStore.parsedSubtitles) > 0
                THEN LET result == filterSubtitlesByDuration(
                                       videoStore.parsedSubtitles, duration)
                     IN  /\ videoStore' = [videoStore EXCEPT
                                              !.error = Null,
                                              !.videoInfo = << [duration |-> duration] >>,
                                              !.subtitleStats = << result.stats >>]
                         /\ relevantSubtitles' = result.filteredSubtitles
                         /\ progressStore' = addLog(store1, "Subtitle optimization")
                ELSE /\ videoStore' = [videoStore EXCEPT
                                          !.error = Null,
                                          !.videoInfo = << [duration |-> duration] >>]
                     /\ progressStore' = store1
                     /\ UNCHANGED relevantSubtitles
    /\ UNCHANGED <<progressManager, lastCall, outputFormat, filterComplex,
                   ffmpeg, processor, service, run, hook>>

(***************************************************************************)
(* The files and the videos tried.  An SRT file is up to MaxSubs blocks, a  *)
(* VTT file the header and up to MaxSubs cues, a blank line between two;    *)
(* an SRT file ends with a newline, a VTT file with or without one.         *)
(***************************************************************************)
Words == << "a" >>
Symbols == << "#" >>
\* a text one character longer than the parser keeps
LongWords == [i \in 1..(TextLimit + 1) |-> "a"]
Start0 == Stamp(0, 0, 0, 0)
Start1 == Stamp(0, 0, 0, 1)
Start2 == Stamp(0, 0, 1, 0)
Windows == { <<Start0, Start1>>, <<Start1, Start2>> }

SrtBlockInputs ==
    { << NumberLine(1), TimeLine(Start0, Start1, ","), TextLine(Words) >>,
      << NumberLine(2), TimeLine(Start1, Start2, ","), TextLine(Words) >>,
      << NumberLine(1), TimeLine(Start1, Start0, ","), TextLine(Words) >>,
      << NumberLine(1), ArrowLine, TextLine(Words) >>,
      << NumberLine(1), TimeLine(Start0, Start1, ",") >>,
      << TextLine(Words), TimeLine(Start0, Start1, "."), TextLine(Words) >>,
      << NumberLine(1), TimeLine(Start0, Start1, "."), TextLine(Symbols),
         TextLine(<< " ", "a", "#" >>) >>,
      << NumberLine(1), TimeLine(Start0, Start1, ","), TextLine(Symbols) >>,
      << NumberLine(3), TimeLine(Start0, Start2, ","), TextLine(LongWords) >> }

VttCueInputs ==
    { << TimeLine(w[1], w[2], "."), TextLine(Words) >> : w \in Windows }
    \cup
    { << TimeLine(Start0, Start1, "."), NoteLine, TextLine(<< "a", " " >>) >>,
      << TimeLine(Start0, Start1, ","), TextLine(Words) >>,
      << NumberLine(7), TimeLine(Start0, Start1, "."), TextLine(Words) >>,
      << TimeLine(Start0, Start1, ".") >> }

RECURSIVE JoinBlocks(_)
JoinBlocks(blocks) ==
    IF blocks = << >> THEN << >>
    ELSE IF Len(blocks) = 1 THEN blocks[1]
    ELSE blocks[1] \o << BlankLine >> \o JoinBlocks(Tail(blocks))

\* the lines of a content: with newline, the content ends in '\n'
Content(lines, newline) ==
    IF lines = << >> THEN << BlankLine >>
    ELSE IF newline THEN lines \o << BlankLine >> ELSE lines

SubtitleFiles ==
    UNION { { [ext |-> "srt", lines |-> Content(JoinBlocks(blocks), TRUE)] :
                 blocks \in [1..n -> SrtBlockInputs] }
            \cup
            { [ext |-> "vtt",
               lines |-> Content(<< TextLine(Words), BlankLine >> \o JoinBlocks(cues),
                                 newline)] :
                 cues \in [1..n -> VttCueInputs], newline \in BOOLEAN }
          : n \in 0..MaxSubs }

\* durations of the video, in half milliseconds
VideoDurations == {1, 2, 5}

InitSubtitles == InitTracker

NextSubtitles ==
    \/ \E file \in SubtitleFiles, rejected \in BOOLEAN : SetSubtitleFile(file, rejected)
    \/ \E duration \in VideoDurations, rejected \in BOOLEAN : SetVideoFile(duration, rejected)

SpecSubtitles == InitSubtitles /\ [][NextSubtitles]_vars

(***************************************************************************)
(* Properties of the duration filter                                        *)
(***************************************************************************)
\* the positions of the entries of a list that start before the duration
Starting(subtitles, videoDuration) ==
    { i \in 1..Len(subtitles) : subtitles[i].startTime < videoDuration }

\* the k-th smallest position of a set of positions
Position(positions, k) ==
    CHOOSE i \in positions : Cardinality({ j \in positions : j <= i }) = k

\* filtered and stats are what the filter owes for subtitles and videoDuration
FilterContract(subtitles, videoDuration, filtered, stats) ==
    LET positions == Starting(subtitles, videoDuration)
    IN  /\ Len(filtered) = Cardinality(positions)
        /\ \A k \in 1..Len(filtered) :
              LET sub == subtitles[Position(positions, k)]
              IN  /\ filtered[k].index = sub.index
                  /\ filtered[k].startTime = sub.startTime
                  /\ filtered[k].text = sub.text
                  /\ filtered[k].endTime =
                        IF sub.endTime <= videoDuration THEN sub.endTime ELSE videoDuration
        /\ stats.total = Len(subtitles)
        /\ stats.relevant = Len(filtered)
        /\ stats.filtered = stats.total - stats.relevant

\* C13: filterSubtitlesByDuration(subtitles, d) returns exactly the entries
\* with startTime < d, in their order, each unchanged but for endTime =
\* min(endTime, d), and leaves its argument as it was; stats.total is the
\* length of the argument, stats.relevant the length of the result and
\* stats.filtered their difference.  Checked at both calls of the hook.
C13_DurationFilter ==
    [][/\ \A duration \in VideoDurations :
             (SetVideoFile(duration, FALSE) /\ Len(videoStore.parsedSubtitles) > 0) =>
                 /\ videoStore'.parsedSubtitles = videoStore.parsedSubtitles
                 /\ FilterContract(videoStore.parsedSubtitles, duration,
                                   relevantSubtitles', videoStore'.subtitleStats[1])
       /\ \A file \in SubtitleFiles :
             (SetSubtitleFile(file, FALSE) /\ videoStore.videoInfo # << >>) =>
                 /\ videoStore'.parsedSubtitles = parseSubtitleFile(file)
                 /\ FilterContract(videoStore'.parsedSubtitles,
                                   videoStore.videoInfo[1].duration,
                                   relevantSubtitles', videoStore'.subtitleStats[1])]_vars

\* two entries parsed, the second starting at the end of the video or
\* later and dropped, the first clipped to the duration
C13_Witness ==
    /\ videoStore.videoInfo # << >>
    /\ Len(videoStore.parsedSubtitles) = 2
    /\ Len(relevantSubtitles) = 1
    /\ relevantSubtitles[1].endTime = videoStore.videoInfo[1].duration
    /\ relevantSubtitles[1].endTime < videoStore.parsedSubtitles[1].endTime
    /\ videoStore.subtitleStats = << [total |-> 2, relevant |-> 1, filtered |-> 1] >>

\* C14: filtering the result of the filter again with the same duration
\* returns the same list, with stats.filtered = 0.
C14_FilterIdempotent ==
    (videoStore.videoInfo # << >> /\ videoStore.subtitleStats # << >>) =>
        LET again == filterSubtitlesByDuration(relevantSubtitles,
                                               videoStore.videoInfo[1].duration)
        IN  /\ again.filteredSubtitles = relevantSubtitles
            /\ again.stats.filtered = 0
            /\ again.stats.total = Len(relevantSubtitles)

\* a filtered list of two entries, the second clipped, of a file of which
\* nothing was dropped
C14_Witness ==
    /\ videoStore.videoInfo # << >>
    /\ videoStore.subtitleStats # << >>
    /\ Len(relevantSubtitles) = 2
    /\ relevantSubtitles[1].startTime > 0
    /\ relevantSubtitles[2].endTime = videoStore.videoInfo[1].duration
    /\ relevantSubtitles[2].endTime < videoStore.parsedSubtitles[2].endTime

(***************************************************************************)
(* Properties of the parser                                                 *)
(***************************************************************************)
\* the content is not empty: some line is not blank
NonEmpty(lines) == \E i \in 1..Len(lines) : ~IsBlank(lines[i])

\* an SRT block of the grammar: the index, the time line, one or more lines
\* of text
WellFormed(block) ==
    /\ Len(block) >= 3
    /\ block[1].kind = "number"
    /\ block[2].kind = "time"

WellFormedBlocks(srtContent) ==
    { i \in 1..Len(Blocks(srtContent)) : WellFormed(Blocks(srtContent)[i]) }

\* the SRT text the parser is applied to
SrtOf(file) == IF file.ext = "vtt" THEN convertVttToSrt(file.lines) ELSE file.lines

\* C19: parsing a file that is not empty and holds no well-formed block
\* fails with a parse error (the hook stores the error) instead of
\* returning a list; with well-formed blocks among malformed ones the parse
\* succeeds, the malformed ones giving no entry.
C19_ParseFailure ==
    [][\A file \in SubtitleFiles :
          (SetSubtitleFile(file, FALSE) /\ NonEmpty(file.lines)) =>
              IF WellFormedBlocks(SrtOf(file)) = {}
              THEN videoStore'.error # Null
              ELSE /\ videoStore'.error = Null
                   /\ Len(videoStore'.parsedSubtitles)
                         <= Cardinality(WellFormedBlocks(SrtOf(file)))]_vars

\* the positions of the cues of a VTT content: a time line
\* HH:MM:SS.mmm --> HH:MM:SS.mmm followed, NOTE lines apart, by a line of
\* text
RECURSIVE HasText(_, _)
HasText(lines, j) ==
    IF j > Len(lines) THEN FALSE
    ELSE IF IsBlank(lines[j]) \/ lines[j].kind \in {"time", "arrow"} THEN FALSE
    ELSE IF lines[j].kind = "note" THEN HasText(lines, j + 1)
    ELSE TRUE

Cues(lines) ==
    { i \in 1..Len(lines) :
         /\ lines[i].kind = "time"
         /\ lines[i].sep = "."
         /\ HasText(lines, i + 1) }

\* C20: every cue of a VTT file gives exactly one SRT block; the blocks are
\* numbered 1, 2, ... in the order of the cues and carry the cue's times
\* with a comma; the last cue too when the file does not end with a blank
\* line.
C20_VttCues ==
    (videoStore.subtitleFile # << >> /\ videoStore.subtitleFile[1].ext = "vtt") =>
        LET lines == videoStore.subtitleFile[1].lines
            cues == Cues(lines)
            blocks == Blocks(convertVttToSrt(lines))
        IN  /\ Len(blocks) = Cardinality(cues)
            /\ \A k \in 1..Len(blocks) :
                  LET cue == lines[Position(cues, k)]
                  IN  /\ blocks[k][1].kind = "number"
                      /\ blocks[k][1].n = k
                      /\ blocks[k][2].kind = "time"
                      /\ blocks[k][2].sep = ","
                      /\ blocks[k][2].start = cue.start
                      /\ blocks[k][2].end = cue.end

\* the files a run has to write before it encodes, in the order of its inputs
RECURSIVE ImageFiles(_)
ImageFiles(subtitles) ==
    IF subtitles = << >>
    THEN << >>
    ELSE << SubtitleFile(Head(subtitles).index) >> \o ImageFiles(Tail(subtitles))
RunInputs == << VideoFile >> \o ImageFiles(relevantSubtitles)

\* C23: when exec is invoked, the writeFile of input.mp4 and then of the
\* image of every relevant subtitle, in input order, have resolved; until
\* then the writes resolved are the first ones of that list, one more after
\* each image rasterized; the image map holds the image just rasterized
\* while it is written and nothing otherwise
C23_WriteBeforeEncode ==
    /\ run.ffmpegArgs # << >> => run.written = RunInputs
    /\ Len(run.written) <= Len(RunInputs)
    /\ run.written = SubSeq(RunInputs, 1, Len(run.written))
    /\ run.pc \in {"toBlob", "writeImage"} => Len(run.written) = 1 + run.k
    /\ Cardinality(run.subtitleImages) <= 1
    /\ run.pc = "writeImage" => run.subtitleImages = {RunInputs[2 + run.k]}
    /\ run.pc \in {"toBlob", "batchYield", "exec"} => run.subtitleImages = {}

\* exec is in flight for a list of two entries
C23_Witness ==
    /\ run.pc = "exec"
    /\ run.inflight = "ok"
    /\ Len(relevantSubtitles) = 2
    /\ Len(run.written) = 3

(***************************************************************************)
(* The provider (VideoProcessingProvider) over the service.  Its            *)
(* startProcessing is the hook's, the same calls in the same order, but     *)
(* that it clears the log first, which no property of the provider reads.   *)
(* The script of the engine is loaded (videoStore.scriptLoaded).            *)
(*                                                                          *)
(* confirmCancelProcessing is confirmed while the run waits for the         *)
(* rasterizer or for the yield before exec, no engine call in flight.  The  *)
(* deleteFile calls of its forceCleanup() are in flight while hook.cancel   *)
(* is "cleanup" and settle together; the engine serves calls in order, so   *)
(* a call the run makes meanwhile settles after them.                       *)
(***************************************************************************)
\* service.initialize returns without waiting: one of its guards, or one of
\* the guards of loadFFmpeg, holds
ReturnsAtOnce ==
    \/ service.isInitialized
    \/ service.isInitializing
    \/ processor.isFFmpegLoaded
    \/ processor.isFFmpegLoading

\* service.initialize called by the provider, up to its first wait.  vs,
\* store, t and fm are the video store, the progress store, the tracker and
\* the engine as the caller leaves them; text is the line the provider logs
\* once initialize has resolved.
InitializeFrom(vs, store, t, fm, text) ==
    IF service.isInitialized \/ service.isInitializing
    THEN /\ videoStore' = [vs EXCEPT !.ffmpegLoaded = TRUE]
         /\ progressStore' = addLog(store, text)
         /\ progressManager' = t
         /\ ffmpeg' = fm
         /\ UNCHANGED <<processor, service>>
    ELSE IF processor.isFFmpegLoaded \/ processor.isFFmpegLoading
    THEN /\ videoStore' = [vs EXCEPT !.ffmpegLoaded = TRUE]
         /\ progressStore' =
               addLog(addLog(store, IF processor.isFFmpegLoaded
                                    THEN "FFmpeg already loaded"
                                    ELSE "FFmpeg loading in progress"),
                      text)
         /\ progressManager' = t
         /\ ffmpeg' = fm
         /\ service' = [service EXCEPT !.isInitialized = TRUE]
         /\ UNCHANGED processor
    ELSE LET t1 == onProgress(onLog(reset(t), "loadFFmpeg"), "loadFFmpeg")
             t2 == updatePhase(setPhase(t1, "parsing-subtitles"), Pct(10))
         IN  /\ videoStore' = vs
             /\ progressManager' = Call(t2)
             /\ progressStore' = StoreAfter(store, t2)
             /\ ffmpeg' = [fm EXCEPT !.handlers = TRUE, !.loading = "ok"]
             /\ processor' = [processor EXCEPT !.isFFmpegLoading = TRUE, !.loads = @ + 1]
             /\ service' = [service EXCEPT !.isInitializing = TRUE]

\* the provider's effect calls service.initialize
Initialize ==
    /\ ReturnsAtOnce \/ processor.loads + run.runs < MaxStarts
    /\ ServiceCall("initialize")
    /\ InitializeFrom(videoStore, progressStore, Call(progressManager), ffmpeg,
                      "FFmpeg loaded successfully")
    /\ UNCHANGED <<run, hook, relevantSubtitles, outputFormat, filterComplex>>

\* ffmpeg.load() settles: the rest of loadFFmpeg, of service.initialize and
\* of the provider code that awaits it
InitializeSettled(fail) ==
    /\ ffmpeg.loading # Null
    /\ ServiceCall("initialize")
    /\ IF ffmpeg.loading = "ok" /\ ~fail
       THEN LET t1 == complete(Call(progressManager))
            IN  /\ progressManager' = Call(t1)
                /\ ffmpeg' = [ffmpeg EXCEPT !.loaded = TRUE, !.loading = Null,
                                            !.files = {}]
                /\ processor' = [processor EXCEPT !.isFFmpegLoaded = TRUE,
                                                  !.isFFmpegLoading = FALSE]
                /\ service' = [service EXCEPT !.isInitialized = TRUE,
                                              !.isInitializing = FALSE]
                /\ videoStore' = [videoStore EXCEPT !.ffmpegLoaded = TRUE]
                /\ progressStore' =
                      addLog(StoreAfter(progressStore, t1),
                             IF hook.cancel = "reinit"
                             THEN "FFmpeg reinitialized - Ready for new processing"
                             ELSE "FFmpeg loaded successfully")
       ELSE LET err == IF ffmpeg.loading = "ok" THEN "load failed" ELSE ffmpeg.loading
                t1 == error(Call(progressManager), "FFmpeg loading failed: " \o err, TRUE)
            IN  /\ progressManager' = Call(t1)
                /\ ffmpeg' = [ffmpeg EXCEPT !.loading = Null]
                /\ processor' = [processor EXCEPT !.isFFmpegLoading = FALSE]
                /\ service' = [service EXCEPT !.isInitializing = FALSE]
                /\ videoStore' = [videoStore EXCEPT !.error =
                                     (IF hook.cancel = "reinit"
                                      THEN "Failed to reinitialize FFmpeg: "
                                      ELSE "Failed to load FFmpeg: ") \o err]
                /\ progressStore' =
                      addLog(StoreAfter(progressStore, t1),
                             (IF hook.cancel = "reinit"
                              THEN "FFmpeg reinit error: "
                              ELSE "FFmpeg load error: ") \o err)
    /\ hook' = [hook EXCEPT !.cancel = IF @ = "reinit" THEN "done" ELSE @]
    /\ UNCHANGED <<run, relevantSubtitles, outputFormat, filterComplex>>

\* Cancel is confirmed in the modal: confirmCancelProcessing up to
\* await forceCleanup(); service.cancelProcessing() only stops the memory
\* monitor
ConfirmCancelProcessing ==
    /\ videoStore.isProcessing /\ hook.cancel = "idle"
    /\ run.pc \in {"toBlob", "batchYield"}
    /\ ServiceCall("confirmCancelProcessing")
    /\ videoStore' = [videoStore EXCEPT !.isCancelling = TRUE]
    /\ progressStore' = addLog(progressStore, "FFmpeg processing terminated")
    /\ hook' = [hook EXCEPT !.cancel = "cleanup"]
    /\ progressManager' = Call(progressManager)
    /\ UNCHANGED <<ffmpeg, processor, service, run,
                   relevantSubtitles, outputFormat, filterComplex>>

\* the deleteFile calls of forceCleanup() have settled: the rest of
\* confirmCancelProcessing, up to the wait for service.initialize if it
\* waits
CancelCleanupSettled ==
    /\ hook.cancel = "cleanup"
    /\ ServiceCall("confirmCancelProcessing")
    /\ InitializeFrom(
           [videoStore EXCEPT !.isProcessing = FALSE, !.downloadUrl = FALSE,
                              !.error = Null],
           [progressStore EXCEPT !.progressStage = "", !.logs = {}],
           reset(Call(progressManager)),
           [ffmpeg EXCEPT !.files = IF ffmpeg.loaded
                                    THEN @ \ Range(filesToClean(<< >>, FALSE))
                                    ELSE @],
           "FFmpeg reinitialized - Ready for new processing")
    /\ hook' = [hook EXCEPT !.cancel = IF ReturnsAtOnce THEN "done" ELSE "reinit",
                            !.cancelTimer = TRUE]
    /\ UNCHANGED <<run, relevantSubtitles, outputFormat, filterComplex>>

\* the 500 ms timer of confirmCancelProcessing
CancelTimerFires ==
    /\ hook.cancelTimer
    /\ ServiceCall("confirmCancelProcessing")
    /\ videoStore' = [videoStore EXCEPT !.isCancelling = FALSE]
    /\ hook' = [hook EXCEPT !.cancelTimer = FALSE]
    /\ progressManager' = Call(progressManager)
    /\ UNCHANGED <<ffmpeg, processor, service, run, progressStore,
                   relevantSubtitles, outputFormat, filterComplex>>

\* a step of startProcessing and of the run it starts, but for the
\* settling of the run's deleteFile calls
RunStep ==
    \/ StartProcessing
    \/ ProcessVideo
    \/ \E fail \in BOOLEAN : WriteInputSettled(fail)
    \/ \E fail \in BOOLEAN : ImageSettled(fail)
    \/ \E fail \in BOOLEAN : WriteImageSettled(fail)
    \/ ExecIssued
    \/ \E line \in RunLogLines : EngineLog(line)
    \/ \E progress \in ProgressEvents : EngineProgress(progress)
    \/ \E fail \in BOOLEAN, empty \in BOOLEAN : ExecSettled(fail, empty)
    \/ \E fail \in BOOLEAN : ReadSettled(fail)
    \/ CleanupDone
    \/ CatchCleanupDone
    \/ CatchForceDone
    \/ FinallyDone
    \/ HookContinues
    \/ PostCleanupDone
    \/ \E timer \in hook.timers : HookTimerFires(timer)
    \/ \E id \in progressManager.pendingResets : DelayedReset(id)

NextProvider ==
    \/ Initialize
    \/ \E fail \in BOOLEAN : InitializeSettled(fail)
    \/ ConfirmCancelProcessing
    \/ CancelCleanupSettled
    \/ CancelTimerFires
    \/ (hook.cancel # "cleanup" \/ run.inflight = Null) /\ RunStep
    \/ hook.cancel # "cleanup" /\ DeleteSettles

SpecProvider == Init /\ [][NextProvider]_vars

\* the Start button of ProcessingButton is enabled (a video and a subtitle
\* file are chosen in every state of the model)
ButtonEnabled ==
    /\ Len(relevantSubtitles) > 0
    /\ ~videoStore.isProcessing
    /\ videoStore.ffmpegLoaded

\* a run is in flight: processVideo has been entered and has not returned,
\* or one of its engine calls has yet to settle
RunInFlight ==
    \/ run.pc # "idle"
    \/ run.inflight # Null
    \/ Len(ffmpeg.pending) > 0

\* C16: runs are serialized: while a run is in flight (cancellation
\* included, until the run has settled) the Start button is disabled, so no
\* second run can be started
C16_SerializedRuns == RunInFlight => ~ButtonEnabled

\* C17: a confirmed cancellation terminates the engine and loads it again:
\* when the cancel handler has called initialize, the terminated engine is
\* not loaded and one more load() has been invoked on it and is in flight
C17_ReloadAfterCancel ==
    [][CancelCleanupSettled =>
          /\ ~ffmpeg'.loaded
          /\ ffmpeg'.loading # Null
          /\ processor'.loads = processor.loads + 1]_vars

\* C18: an initialize that arrives while a load is in flight starts no
\* second load and resolves only when that load has completed: whenever
\* the provider takes initialize as resolved, the engine is loaded
C18_SharedLoad ==
    [][/\ (Initialize /\ ffmpeg.loading # Null) =>
             /\ processor'.loads = processor.loads
             /\ ffmpeg'.loading = ffmpeg.loading
       /\ (Initialize /\ ReturnsAtOnce) => ffmpeg'.loaded]_vars

(***************************************************************************)
(* The argument list built for every list of relevant subtitles and every  *)
(* ProcessingOptions object within the bounds, as processVideo and          *)
(* processWithUnifiedFilter build it.                                       *)
(***************************************************************************)
Qualities == {"fast", "balanced", "high"}
\* crf tried: none, 0 and 30; threads tried: none, 0 and 4
CrfInputs == {None, 0, 30}
ThreadInputs == {None, 0, 4}
OptionInputs ==
    { ProcessingOptions(quality, crf, None, threads) :
          quality \in Qualities, crf \in CrfInputs, threads \in ThreadInputs }

InitArgs ==
    /\ progressManager = NewProgressManager
    /\ relevantSubtitles \in SubtitleLists
    /\ outputFormat = "mp4"
    /\ filterComplex = << >>
    /\ lastCall = Record("constructor", << >>)
    /\ ffmpeg = NewFFmpeg
    /\ processor = NewProcessor
    /\ service = NewService
    /\ run = IdleRun
    /\ \E options \in OptionInputs :
          videoStore = [NewVideoStore EXCEPT !.processingOptions = options]
    /\ progressStore = NewProgressStore
    /\ hook = NewHook

BuildArgs ==
    /\ run.ffmpegArgs = << >>
    /\ filterComplex' = buildOptimizedFilterComplex(relevantSubtitles)
    /\ run' = [run EXCEPT !.ffmpegArgs =
                   ffmpegArgs(relevantSubtitles, outputFormat,
                              MergeOptions(videoStore.processingOptions))]
    /\ UNCHANGED <<progressManager, lastCall, relevantSubtitles, outputFormat,
                   ffmpeg, processor, service, videoStore, progressStore, hook>>

NextArgs == BuildArgs

SpecArgs == InitArgs /\ [][NextArgs]_vars

\* the argument that follows the first flag of an argument list
ArgAfter(args, flag) ==
    args[1 + CHOOSE i \in 1..(Len(args) - 1) :
                 /\ args[i].tok = "arg" /\ args[i].text = flag
                 /\ \A j \in 1..(i - 1) : ~(args[j].tok = "arg" /\ args[j].text = flag)].text

TierPreset(quality) ==
    IF quality = "fast" THEN "ultrafast"
    ELSE IF quality = "high" THEN "slow" ELSE "medium"
TierCrf(quality) ==
    IF quality = "fast" THEN 28 ELSE IF quality = "high" THEN 18 ELSE 23

\* C21: the argument list of a run carries the preset of the quality tier;
\* with no crf in the options given to processVideo it carries the CRF of
\* the tier (28, 23, 18), with a crf (0 included) it carries that crf; threads
\* 0 is passed as '0'
C21_QualityTiers ==
    run.ffmpegArgs # << >> =>
       LET options == videoStore.processingOptions
       IN  /\ ArgAfter(run.ffmpegArgs, "-preset") = TierPreset(options.quality)
           /\ options.crf = None =>
                 ArgAfter(run.ffmpegArgs, "-crf") = ToString(TierCrf(options.quality))
           /\ options.crf # None =>
                 ArgAfter(run.ffmpegArgs, "-crf") = ToString(options.crf)
           /\ options.threads = 0 => ArgAfter(run.ffmpegArgs, "-threads") = "0"

\* the arguments that follow the '-i' flags of an argument list, in order
RECURSIVE InputFiles(_)
InputFiles(args) ==
    IF Len(args) < 2
    THEN << >>
    ELSE IF args[1].tok = "arg" /\ args[1].text = "-i"
         THEN << args[2].text >> \o InputFiles(SubSeq(args, 3, Len(args)))
         ELSE InputFiles(Tail(args))

\* the filter graph of an argument list: what follows '-filter_complex'
GraphOf(args) ==
    args[1 + CHOOSE i \in 1..(Len(args) - 1) :
                 args[i].tok = "arg" /\ args[i].text = "-filter_complex"].text

\* the stages of a graph that read the pad called name
Readers(stages, name) ==
    { i \in 1..Len(stages) :
         \E j \in 1..Len(StageInputs(stages[i])) : StageInputs(stages[i])[j] = name }
Writers(stages, name) ==
    { i \in 1..Len(stages) : StageOutput(stages[i]) = name }

\* C22: in the argument list built for N >= 1 entries, stage 0 reads [0:v]
\* and [1:v], stage i > 0 reads [overlay(i-1)] and [(i+1):v]; every
\* intermediate label is written by one stage and read by the next one only;
\* the last stage writes [final_output], the label given to -map; stage i is
\* an overlay enabled between the printed start and end time of entries[i];
\* and the (i+1)-th '-i' input is subtitle_<entries[i].index>.png
C22_OverlayChain ==
    (run.ffmpegArgs # << >> /\ Len(relevantSubtitles) >= 1) =>
       LET entries == relevantSubtitles
           N == Len(entries)
           stages == Stages(GraphOf(run.ffmpegArgs))
           inputs == InputFiles(run.ffmpegArgs)
       IN  /\ Len(stages) = N
           /\ \A i \in 0..(N - 1) :
                 /\ WellShaped(stages[i + 1])
                 /\ StageInputs(stages[i + 1]) =
                       << IF i = 0 THEN InputPad(0) ELSE OverlayLabel(i - 1),
                          InputPad(i + 1) >>
                 /\ StageOutput(stages[i + 1]) =
                       IF i = N - 1 THEN "final_output" ELSE OverlayLabel(i)
                 /\ StageFilter(stages[i + 1]) =
                       [tok |-> "overlay", x |-> 0, y |-> 0,
                        from |-> toFixed3(entries[i + 1].startTime),
                        to |-> toFixed3(entries[i + 1].endTime)]
           /\ \A i \in 0..(N - 2) :
                 /\ Writers(stages, OverlayLabel(i)) = {i + 1}
                 /\ Readers(stages, OverlayLabel(i)) = {i + 2}
           /\ Writers(stages, "final_output") = {N}
           /\ Readers(stages, "final_output") = {}
           /\ ArgAfter(run.ffmpegArgs, "-map") = "[final_output]"
           /\ Len(inputs) = N + 1
           /\ inputs[1] = VideoFile
           /\ \A i \in 1..N : inputs[i + 1] = SubtitleFile(entries[i].index)

\* a list of two entries whose indices are not their positions
C22_Witness ==
    /\ run.ffmpegArgs # << >>
    /\ Len(relevantSubtitles) = 2
    /\ relevantSubtitles[1].index = 2
    /\ relevantSubtitles[2].index = 3
    /\ Len(Stages(GraphOf(run.ffmpegArgs))) = 2
    /\ videoStore.processingOptions.quality = "fast"

\* C24: the entries the parser returns have pairwise distinct indices, all
\* at least 1; so the relevant entries kept from them are written to
\* pairwise distinct image files subtitle_<index>.png
C24_DistinctIndices ==
    /\ \A i \in 1..Len(videoStore.parsedSubtitles) :
          /\ videoStore.parsedSubtitles[i].index >= 1
          /\ \A j \in 1..Len(videoStore.parsedSubtitles) :
                i # j => videoStore.parsedSubtitles[i].index
                            # videoStore.parsedSubtitles[j].index
    /\ \A i \in 1..Len(relevantSubtitles) : \A j \in 1..Len(relevantSubtitles) :
          i # j => ImageFiles(relevantSubtitles)[i] # ImageFiles(relevantSubtitles)[j]

\* C25: the list the parser returns is sorted ascending by startTime and
\* each of its entries has startTime < endTime and a text of 1 to 100
\* characters; the list the duration filter returns for duration d holds the
\* entries it keeps in the order of the parser's list, each with
\* startTime < endTime <= d
C25_EntryInvariant ==
    LET parsed == videoStore.parsedSubtitles
    IN  /\ \A i \in 1..Len(parsed) :
              /\ parsed[i].startTime < parsed[i].endTime
              /\ parsed[i].text # << >>
              /\ Len(parsed[i].text) <= TextLimit
              /\ \A j \in 1..Len(parsed) :
                    i < j => parsed[i].startTime <= parsed[j].startTime
        /\ (videoStore.videoInfo # << >> /\ videoStore.subtitleStats # << >>) =>
              LET d == videoStore.videoInfo[1].duration
                  positions == Starting(parsed, d)
              IN  /\ Len(relevantSubtitles) = Cardinality(positions)
                  /\ \A k \in 1..Len(relevantSubtitles) :
                        /\ relevantSubtitles[k].startTime < relevantSubtitles[k].endTime
                        /\ relevantSubtitles[k].endTime <= d
                        /\ relevantSubtitles[k].index = parsed[Position(positions, k)].index
                        /\ relevantSubtitles[k].text = parsed[Position(positions, k)].text
                        /\ \A j \in 1..Len(relevantSubtitles) :
                              k < j => relevantSubtitles[k].startTime
                                          <= relevantSubtitles[j].startTime

\* a file whose second block starts before its first, one of them with a
\* text cut to 100 characters, filtered for a video that ends inside both
C25_Witness ==
    /\ videoStore.subtitleFile # << >>
    /\ videoStore.subtitleFile[1].ext = "srt"
    /\ videoStore.videoInfo # << >>
    /\ Len(videoStore.parsedSubtitles) = 2
    /\ LET blocks == Blocks(videoStore.subtitleFile[1].lines)
       IN  /\ Len(blocks) = 2
           /\ blocks[1][2].kind = "time" /\ blocks[2][2].kind = "time"
           /\ StampTime(blocks[2][2].start) < StampTime(blocks[1][2].start)
    /\ Len(videoStore.parsedSubtitles[1].text) = TextLimit
    /\ Len(relevantSubtitles) = 1
    /\ relevantSubtitles[1].endTime < videoStore.parsedSubtitles[1].endTime

(***************************************************************************)
(* Several instances of the hook (useVideoProcessing) over the one service *)
(* and the one GlobalInitializationState.  The effect of an instance runs  *)
(* when it mounts with the engine's script loaded.  The promise stored is   *)
(* the one of the async function that wraps service.initialize in          *)
(* try/catch/finally: it resolves whether initialize resolved or rejected, *)
(* and the instances awaiting it go on in the same turn.                   *)
(***************************************************************************)
Instances == {"h1", "h2", "h3"}

\* an instance mounts: initializeService up to its first wait
InitializeService(h) ==
    /\ h \notin hook.mounted
    /\ ServiceCall("initializeService")
    /\ UNCHANGED <<run, relevantSubtitles, outputFormat, filterComplex>>
    /\ IF hook.isGloballyInitialized
       THEN /\ videoStore' = [videoStore EXCEPT !.ffmpegLoaded = TRUE]
            /\ hook' = [hook EXCEPT !.mounted = @ \cup {h}]
            /\ progressManager' = Call(progressManager)
            /\ UNCHANGED <<ffmpeg, processor, service, progressStore>>
       ELSE IF hook.isGloballyInitializing
       THEN /\ hook' = [hook EXCEPT !.mounted = @ \cup {h},
                                    !.waiting = IF hook.globalInitPromise
                                                THEN @ \cup {h} ELSE @]
            /\ progressManager' = Call(progressManager)
            /\ UNCHANGED <<ffmpeg, processor, service, videoStore, progressStore>>
       ELSE /\ ReturnsAtOnce \/ processor.loads + run.runs < MaxStarts
            /\ InitializeFrom(videoStore, progressStore, Call(progressManager), ffmpeg,
                              "FFmpeg loaded successfully")
            /\ hook' = [hook EXCEPT !.mounted = @ \cup {h},
                                    !.isGloballyInitialized = ReturnsAtOnce,
                                    !.isGloballyInitializing = ~ReturnsAtOnce,
                                    !.globalInitPromise = ~ReturnsAtOnce]

\* ffmpeg.load() settles: the rest of loadFFmpeg, of service.initialize, of
\* the wrapping function, and of the instances that awaited its promise
InitializeServiceSettled(fail) ==
    /\ ffmpeg.loading # Null
    /\ ServiceCall("initializeService")
    /\ UNCHANGED <<run, relevantSubtitles, outputFormat, filterComplex>>
    /\ hook' = [hook EXCEPT !.isGloballyInitialized = ffmpeg.loading = "ok" /\ ~fail,
                            !.isGloballyInitializing = FALSE,
                            !.globalInitPromise = FALSE,
                            !.waiting = {}]
    /\ IF ffmpeg.loading = "ok" /\ ~fail
       THEN LET t1 == complete(Call(progressManager))
            IN  /\ progressManager' = Call(t1)
                /\ ffmpeg' = [ffmpeg EXCEPT !.loaded = TRUE, !.loading = Null,
                                            !.files = {}]
                /\ processor' = [processor EXCEPT !.isFFmpegLoaded = TRUE,
                                                  !.isFFmpegLoading = FALSE]
                /\ service' = [service EXCEPT !.isInitialized = TRUE,
                                              !.isInitializing = FALSE]
                /\ videoStore' = [videoStore EXCEPT !.ffmpegLoaded = TRUE]
                /\ progressStore' = addLog(StoreAfter(progressStore, t1),
                                           "FFmpeg loaded successfully")
       ELSE LET err == IF ffmpeg.loading = "ok" THEN "load failed" ELSE ffmpeg.loading
                t1 == error(Call(progressManager), "FFmpeg loading failed: " \o err, TRUE)
            IN  /\ progressManager' = Call(t1)
                /\ ffmpeg' = [ffmpeg EXCEPT !.loading = Null]
                /\ processor' = [processor EXCEPT !.isFFmpegLoading = FALSE]
                /\ service' = [service EXCEPT !.isInitializing = FALSE]
                /\ videoStore' = [videoStore EXCEPT
                                     !.error = "Failed to load FFmpeg: " \o err,
                                     !.ffmpegLoaded = @ \/ hook.waiting # {}]
                /\ progressStore' = addLog(StoreAfter(progressStore, t1),
                                           "FFmpeg load error: " \o err)

NextHook ==
    \/ \E h \in Instances : InitializeService(h)
    \/ \E fail \in BOOLEAN : InitializeServiceSettled(fail)
    \/ RunStep
    \/ DeleteSettles

SpecHook == Init /\ [][NextHook]_vars

\* C27: with several hook instances, ffmpegLoaded becomes true only when an
\* initialization of the engine has completed successfully, also for an
\* instance that waited for the shared promise; an initialization that
\* failed leaves isGloballyInitialized false and no promise stored, nothing
\* marked as initializing, so that the next instance to mount loads again
C27_LoadedAfterInit ==
    [][/\ (~videoStore.ffmpegLoaded /\ videoStore'.ffmpegLoaded) =>
             ffmpeg'.loaded /\ hook'.isGloballyInitialized
       /\ (InitializeServiceSettled(TRUE) \/ (InitializeServiceSettled(FALSE)
                                               /\ ~ffmpeg'.loaded)) =>
             /\ ~hook'.isGloballyInitialized
             /\ ~hook'.isGloballyInitializing
             /\ ~hook'.globalInitPromise]_vars

\* processVideo has been called and the run has neither completed nor failed
RunUnderWay ==
    run.pc \in {"writeInput", "toBlob", "writeImage", "batchYield", "exec",
                "readFile", "cleanup"}

\* C28: while a run is under way the tracker follows that run alone: the
\* phase never goes back from 'processing-video' to 'parsing-subtitles' and
\* phaseProgress never drops within a phase, whatever timer an earlier
\* complete() has armed
C28_RunOwnsTracker ==
    [][(RunUnderWay /\ RunUnderWay') =>
          /\ ~(/\ progressManager.currentPhase = "processing-video"
               /\ progressManager'.currentPhase = "parsing-subtitles")
          /\ progressManager'.currentPhase = progressManager.currentPhase =>
                progressManager'.phaseProgress >= progressManager.phaseProgress]_vars

(***************************************************************************)
(* The hook from the choice of the files to the end of a run: the files    *)
(* are chosen before the run starts; startProcessing is called whether or  *)
(* not its inputs are there.  Every call in flight settles, every          *)
(* continuation that is ready runs.                                        *)
(***************************************************************************)
\* the check at the top of startProcessing (a video file is chosen whenever
\* the video info is there)
InputsReady ==
    /\ videoStore.subtitleFile # << >>
    /\ videoStore.videoInfo # << >>
    /\ Len(relevantSubtitles) > 0

\* a startProcessing that goes on without its inputs
StartProcessingInvalid_StartsAnyway ==
    /\ ~InputsReady /\ run.pc = "idle"
    /\ ServiceCall("startProcessing")
    /\ videoStore' = [videoStore EXCEPT !.isProcessing = TRUE, !.error = Null]
    /\ progressManager' = Call(progressManager)
    /\ UNCHANGED <<ffmpeg, processor, service, run, progressStore, hook,
                   relevantSubtitles, outputFormat, filterComplex>>

\* startProcessing called while an input is missing
StartProcessingInvalid ==
    /\ ~InputsReady /\ run.pc = "idle"
    /\ ServiceCall("startProcessing")
    /\ videoStore' = [videoStore EXCEPT !.error =
           "Please upload both video and subtitle files, and ensure video info is loaded."]
    /\ progressManager' = Call(progressManager)
    /\ UNCHANGED <<ffmpeg, processor, service, run, progressStore, hook,
                   relevantSubtitles, outputFormat, filterComplex>>

\* a file of one entry and a file that holds none
LifecycleFiles ==
    { [ext |-> "srt",
       lines |-> Content(<< NumberLine(1), TimeLine(Start0, Start2, ","),
                            TextLine(Words) >>, TRUE)],
      [ext |-> "srt",
       lines |-> Content(<< NumberLine(1), ArrowLine, TextLine(Words) >>, TRUE)] }
LifecycleDurations == {5}

\* one load of the engine and one run
FirstLoad == processor.loads = 0
FirstRun == run.runs = 0
FilesOpen == run.pc = "idle" /\ run.runs = 0 /\ ~videoStore.isProcessing

NextLifecycle ==
    \/ \E file \in LifecycleFiles, rejected \in BOOLEAN :
          FilesOpen /\ SetSubtitleFile(file, rejected)
    \/ \E duration \in LifecycleDurations, rejected \in BOOLEAN :
          FilesOpen /\ SetVideoFile(duration, rejected)
    \/ FirstLoad /\ LoadFFmpeg
    \/ \E fail \in BOOLEAN : LoadSettled(fail)
    \/ StartProcessingInvalid
    \/ FirstRun /\ InputsReady /\ StartProcessing
    \/ DeleteSettles
    \/ ProcessVideo
    \/ \E fail \in BOOLEAN : WriteInputSettled(fail)
    \/ \E fail \in BOOLEAN : ImageSettled(fail)
    \/ \E fail \in BOOLEAN : WriteImageSettled(fail)
    \/ ExecIssued
    \/ \E line \in RunLogLines : EngineLog(line)
    \/ \E progress \in ProgressEvents : EngineProgress(progress)
    \/ \E fail \in BOOLEAN, empty \in BOOLEAN : ExecSettled(fail, empty)
    \/ \E fail \in BOOLEAN : ReadSettled(fail)
    \/ CleanupDone
    \/ CatchCleanupDone
    \/ CatchForceDone
    \/ FinallyDone
    \/ HookContinues
    \/ PostCleanupDone
    \/ \E timer \in hook.timers : HookTimerFires(timer)
    \/ \E id \in progressManager.pendingResets : DelayedReset(id)
    \/ CancelProcessing

\* every engine call and every wait of a run settles, every continuation runs
RunSettles ==
    /\ WF_vars(DeleteSettles)
    /\ WF_vars(ProcessVideo)
    /\ WF_vars(\E fail \in BOOLEAN : WriteInputSettled(fail))
    /\ WF_vars(\E fail \in BOOLEAN : ImageSettled(fail))
    /\ WF_vars(\E fail \in BOOLEAN : WriteImageSettled(fail))
    /\ WF_vars(ExecIssued)
    /\ WF_vars(\E fail \in BOOLEAN, empty \in BOOLEAN : ExecSettled(fail, empty))
    /\ WF_vars(\E fail \in BOOLEAN : ReadSettled(fail))
    /\ WF_vars(CleanupDone)
    /\ WF_vars(CatchCleanupDone)
    /\ WF_vars(CatchForceDone)
    /\ WF_vars(FinallyDone)
    /\ WF_vars(HookContinues)
    /\ WF_vars(PostCleanupDone)

SpecLifecycle == InitTracker /\ [][NextLifecycle]_vars /\ RunSettles

STATE_EXPIRY_MS == 5 * 60 * 1000
ReloadDelay == 500
MaxReloads == 2
MaxTicks == 2

\* Date.now() - state.savedAt > STATE_EXPIRY_MS
Expired(state, now) == now - state.savedAt > STATE_EXPIRY_MS

\* getState(): the item unless there is none or it has expired; an expired
\* item is removed
getState(storage, now) ==
    IF storage = << >> THEN [state |-> << >>, storage |-> storage]
    ELSE IF Expired(storage[1], now) THEN [state |-> << >>, storage |-> << >>]
    ELSE [state |-> storage, storage |-> storage]

\* saveState(state): state merged over getState(), stamped with the time
\* (every field but savedAt is given by the callers here)
saveState(storage, state, now) == << [state EXCEPT !.savedAt = now] >>

\* markCancellationInProgress()
markCancellationInProgress(storage, now) ==
    LET currentState == getState(storage, now).state
    IN  IF currentState = << >> THEN storage
        ELSE saveState(storage, [currentState[1] EXCEPT !.wasCancelled = TRUE,
                                                        !.wasProcessing = TRUE], now)

\* shouldRestoreState()
shouldRestoreState(storage, now) ==
    LET got == getState(storage, now)
    IN  [value |-> got.state # << >> /\ got.state[1].wasCancelled,
         storage |-> got.storage]

\* a getAndClearState that leaves the item it returns in place
getAndClearState_Keeps(storage, now) ==
    IF storage = << >> THEN [state |-> << >>, storage |-> storage]
    ELSE IF Expired(storage[1], now) THEN [state |-> << >>, storage |-> << >>]
    ELSE [state |-> storage, storage |-> storage]

\* getAndClearState()
getAndClearState(storage, now) ==
    IF storage = << >> THEN [state |-> << >>, storage |-> storage]
    ELSE IF Expired(storage[1], now) THEN [state |-> << >>, storage |-> << >>]
    ELSE [state |-> storage, storage |-> << >>]

CancelledLine == HookLog("Processing cancelled successfully via page reload")

\* the hook's confirmCancelProcessing, from the dialog's enabled button
HookConfirmCancelProcessing ==
    /\ videoStore.isProcessing /\ ~videoStore.isCancelling
    /\ ~hook.reloadTimer /\ hook.effectRan # {}
    /\ hook.saves < MaxReloads
    /\ ServiceCall("confirmCancelProcessing")
    /\ LET state == [ logs |-> progressStore.logs,
                      outputFormat |-> outputFormat,
                      quality |-> videoStore.processingOptions.quality,
                      crf |-> videoStore.processingOptions.crf,
                      threads |-> videoStore.processingOptions.threads,
                      wasProcessing |-> TRUE, wasCancelled |-> TRUE,
                      savedAt |-> None ]
           saved == saveState(hook.localStorage, state, hook.now)
       IN  hook' = [hook EXCEPT
                       !.localStorage = markCancellationInProgress(saved, hook.now),
                       !.reloadTimer = TRUE,
                       !.saves = @ + 1]
    /\ videoStore' = [videoStore EXCEPT !.isCancelling = TRUE]
    /\ progressStore' =
           addLog(addLog(progressStore, "Preparing to cancel processing..."),
                  "State saved - reloading page to cancel FFmpeg...")
    /\ progressManager' = Call(progressManager)
    /\ UNCHANGED <<ffmpeg, processor, service, run,
                   relevantSubtitles, outputFormat, filterComplex>>

\* time passes while an item is stored
Tick(elapsed) ==
    /\ hook.localStorage # << >>
    /\ hook.now < MaxTicks * STATE_EXPIRY_MS
    /\ hook' = [hook EXCEPT !.now = @ + elapsed]
    /\ UNCHANGED <<progressManager, lastCall, relevantSubtitles, outputFormat,
                   filterComplex, ffmpeg, processor, service, run, videoStore,
                   progressStore>>

\* the timer fires: window.location.reload(), or the user reloads the page;
\* the page starts anew, the item and the clock stay
Reload(byUser) ==
    /\ byUser \/ hook.reloadTimer
    /\ ServiceCall("reload")
    /\ progressManager' = NewProgressManager
    /\ relevantSubtitles' = << >>
    /\ outputFormat' = "mp4"
    /\ filterComplex' = << >>
    /\ ffmpeg' = NewFFmpeg
    /\ processor' = NewProcessor
    /\ service' = NewService
    /\ run' = IdleRun
    /\ videoStore' = NewVideoStore
    /\ progressStore' = NewProgressStore
    /\ hook' = [NewHook EXCEPT !.localStorage = hook.localStorage,
                               !.now = IF byUser THEN hook.now
                                       ELSE hook.now + ReloadDelay,
                               !.saves = hook.saves,
                               !.cancelledLines = hook.cancelledLines]

\* the restoreState effect of a hook instance that mounts; elapsed is the
\* time between its two readings of the clock
RestoreState(h, elapsed) ==
    /\ h \notin hook.effectRan /\ ~hook.reloadTimer
    /\ ServiceCall("restoreState")
    /\ LET should == shouldRestoreState(hook.localStorage, hook.now)
           got == getAndClearState(should.storage, hook.now + elapsed)
       IN  IF should.value
           THEN /\ hook' = [hook EXCEPT
                               !.localStorage = got.storage,
                               !.now = @ + elapsed,
                               !.effectRan = @ \cup {h},
                               !.cancelledLines =
                                   IF got.state # << >> THEN @ + 1 ELSE @]
                /\ IF got.state # << >>
                   THEN LET state == got.state[1]
                        IN  /\ progressStore' =
                                   [progressStore EXCEPT !.logs =
                                       state.logs \cup {CancelledLine}]
                            /\ outputFormat' = state.outputFormat
                            /\ videoStore' = [videoStore EXCEPT
                                   !.processingOptions =
                                       ProcessingOptions(
                                           IF state.quality = "" THEN "balanced"
                                           ELSE state.quality,
                                           OrElse(state.crf, 23),
                                           videoStore.processingOptions.memoryLimit,
                                           OrElse(state.threads, 0))]
                   ELSE UNCHANGED <<progressStore, outputFormat, videoStore>>
           ELSE /\ hook' = [hook EXCEPT !.localStorage = should.storage,
                                        !.effectRan = @ \cup {h}]
                /\ UNCHANGED <<progressStore, outputFormat, videoStore>>
    /\ progressManager' = Call(progressManager)
    /\ UNCHANGED <<ffmpeg, processor, service, run,
                   relevantSubtitles, filterComplex>>

ReloadInstances == {"h1", "h2"}
ClockSteps == {STATE_EXPIRY_MS - ReloadDelay, STATE_EXPIRY_MS}
ReloadFile ==
    [ext |-> "srt",
     lines |-> Content(<< NumberLine(1), TimeLine(Start0, Start2, ","),
                          TextLine(Words) >>, TRUE)]

NextReload ==
    \/ \E h \in ReloadInstances, elapsed \in {0, 1} : RestoreState(h, elapsed)
    \/ FilesOpen /\ SetSubtitleFile(ReloadFile, FALSE)
    \/ FirstLoad /\ LoadFFmpeg
    \/ \E fail \in BOOLEAN : LoadSettled(fail)
    \/ FirstRun /\ StartProcessing
    \/ DeleteSettles
    \/ ProcessVideo
    \/ HookConfirmCancelProcessing
    \/ \E elapsed \in ClockSteps : Tick(elapsed)
    \/ \E byUser \in BOOLEAN : Reload(byUser)

SpecReload == InitTracker /\ [][NextReload]_vars

\* C30: a saved cancellation is restored at most once, and once by the
\* first hook instance of the reloaded page that finds it within the
\* expiry: that instance gets the saved logs and the 'cancelled' line and
\* empties the storage, an instance that finds the storage empty adds
\* nothing; an item older than the expiry is never restored, and
\* getAndClearState leaves the storage empty whatever it returns
C30_RestoredOnce ==
    /\ [](hook.cancelledLines <= hook.saves)
    /\ [](\A elapsed \in {0, 1} :
             getAndClearState(hook.localStorage, hook.now + elapsed).storage = << >>)
    /\ [][\A h \in ReloadInstances, elapsed \in {0, 1} :
            RestoreState(h, elapsed) =>
               /\ hook'.localStorage = << >>
               /\ IF /\ hook.localStorage # << >>
                     /\ ~Expired(hook.localStorage[1], hook.now + elapsed)
                  THEN /\ hook'.cancelledLines = hook.cancelledLines + 1
                       /\ progressStore'.logs =
                              hook.localStorage[1].logs \cup {CancelledLine}
                  ELSE /\ hook'.cancelledLines = hook.cancelledLines
                       /\ progressStore' = progressStore]_vars

\* after the reload the first instance has restored the saved state, the
\* second has found nothing
C30_Witness ==
    /\ hook.saves = 1 /\ hook.cancelledLines = 1
    /\ hook.now = ReloadDelay
    /\ hook.effectRan = ReloadInstances
    /\ hook.localStorage = << >>
    /\ CancelledLine \in progressStore.logs
    /\ ~videoStore.isCancelling

====
